---------------------------- MODULE Spec2Model ----------------------------
(***************************************************************************)
(* A model of the Telegram message-inspector bot (grammy_raw_bot): the     *)
(* session preference functions of session.ts, the settings codec          *)
(* (generateExportCommand / importSettings) and the handlers of bot.ts     *)
(* acting on one chat's session record.                                    *)
(*                                                                         *)
(* JavaScript values are tagged records, so that a field holding a value   *)
(* of the wrong type (or no value) is a value like any other:              *)
(*   undefined, null, boolean, number, string, object, array.              *)
(* An object is a function from its property names to values.              *)
(***************************************************************************)
EXTENDS Integers, Sequences, FiniteSets, TLC

VARIABLES
    chatType,   \* ctx.chat.type of the chat the session record belongs to
    store,      \* the chat's record in the session storage (Undefined: none)
    given,      \* ctx.session as the session middleware gave it to the last handler
    last,       \* the update the last handler invocation handled
    reply,      \* what that invocation sent back
    updates,    \* number of updates handled so far
    err,        \* the exception that left that invocation (Undefined: none)
    inFlight,   \* the invocations of the middleware stack that have not finished
    call,       \* a direct call of one of session.ts' functions: name and arguments
    ret         \* what that call returned

vars == <<chatType, store, given, last, reply, updates, err, inFlight, call, ret>>

\* user ids range over 0 .. MaxUserId
MaxUserId == 2

UserIds == 0 .. MaxUserId

-----------------------------------------------------------------------------
(* JavaScript values *)

Undefined == [ty |-> "undefined"]
Null      == [ty |-> "null"]
Bool(b)   == [ty |-> "boolean", b |-> b]
Num(n)    == [ty |-> "number", n |-> n]
Str(s)    == [ty |-> "string", s |-> s]
Obj(f)    == [ty |-> "object", o |-> f]
Arr(a)    == [ty |-> "array", a |-> a]

EmptyObj == Obj(<<>>)

\* a ?? b
IsNullish(v) == v.ty \in {"undefined", "null"}
Coalesce(a, b) == IF IsNullish(a) THEN b ELSE a

\* ToBoolean(v): what `!v`, `v && ...`, `v || ...` and `if (v)` test
Truthy(v) ==
    CASE v.ty = "boolean" -> v.b
      [] v.ty = "number"  -> v.n # 0
      [] v.ty = "string"  -> v.s # ""
      [] v.ty = "object"  -> TRUE
      [] v.ty = "array"   -> TRUE
      [] OTHER            -> FALSE

\* v.k / v[k]: undefined when v has no such property (reading a property of
\* null or undefined throws instead: see Throws)
Get(v, k) ==
    IF v.ty = "object" /\ k \in DOMAIN v.o THEN v.o[k] ELSE Undefined

Has(v, k) == v.ty = "object" /\ k \in DOMAIN v.o

\* v.k = x on an object
Put(v, k, x) == Obj((k :> x) @@ v.o)

\* delete v[k]
Del(v, k) == Obj([j \in (DOMAIN v.o) \ {k} |-> v.o[j]])

\* reading a property of v throws a TypeError
Throws(v) == IsNullish(v)

\* v.a.b.c, and v after v.a.b.c = x
RECURSIVE GetIn(_, _)
GetIn(v, path) ==
    IF path = <<>> THEN v ELSE GetIn(Get(v, Head(path)), Tail(path))

RECURSIVE PutIn(_, _, _)
PutIn(v, path, x) ==
    IF Len(path) = 1 THEN Put(v, path[1], x)
    ELSE Put(v, path[1], PutIn(Get(v, path[1]), Tail(path), x))

\* the property name a number indexes (userPreferences[ctx.from.id])
Digits == <<"0", "1", "2", "3", "4", "5", "6", "7", "8", "9">>
Key(n) == Digits[n + 1]

-----------------------------------------------------------------------------
(* session.ts: the preference model *)

MessageTypes ==
    <<"text", "photo", "video", "document", "audio", "sticker",
      "animation", "voice", "poll", "location", "contact", "forward">>

MessageType == {MessageTypes[i] : i \in DOMAIN MessageTypes}

getDefaultMessageFilters ==
    Obj([enabledTypes |-> Obj([t \in MessageType |-> Bool(TRUE)]),
         respondToAll |-> Bool(TRUE)])

getDefaultViewPreferences(isGroup) ==
    Obj([displayMode     |-> Str(IF isGroup THEN "raw" ELSE "compact"),
         showForwardInfo |-> Bool(TRUE),
         showAuthorInfo  |-> Bool(TRUE),
         privacyOptions  |-> Obj([maskUserIds      |-> Bool(FALSE),
                                  maskPhoneNumbers |-> Bool(TRUE),
                                  maskChatIds      |-> Bool(FALSE)])])

\* a test for group chats that leaves channels out
IsGroupType_NoChannel(type) ==
    type = Str("group") \/ type = Str("supergroup")

\* chatType === 'group' || chatType === 'supergroup' || chatType === 'channel'
IsGroupType(type) ==
    type = Str("group") \/ type = Str("supergroup") \/ type = Str("channel")

getDefaultSession(type) ==
    Obj([enabled               |-> Bool(type = Str("private")),
         viewPreferences       |-> getDefaultViewPreferences(IsGroupType(type)),
         messageFilters        |-> getDefaultMessageFilters,
         usePerUserPreferences |-> Bool(FALSE),
         userPreferences       |-> EmptyObj])


\* ensureCompleteSession with `||` where the source has `??` for enabled:
\* a stored `false` is replaced by the chat-type default.
ensureCompleteSession_Truthy(session, type) ==
    Obj([enabled               |-> IF Truthy(Get(session, "enabled"))
                                   THEN Get(session, "enabled")
                                   ELSE Bool(type = Str("private")),
         viewPreferences       |-> Coalesce(Get(session, "viewPreferences"),
                                            getDefaultViewPreferences(IsGroupType(type))),
         messageFilters        |-> Coalesce(Get(session, "messageFilters"),
                                            getDefaultMessageFilters),
         usePerUserPreferences |-> Coalesce(Get(session, "usePerUserPreferences"),
                                            Bool(FALSE)),
         userPreferences       |-> Coalesce(Get(session, "userPreferences"),
                                            EmptyObj)])

\* ensureCompleteSession with the stored enabled flag negated when present
ensureCompleteSession_Negated(session, type) ==
    Obj([enabled               |-> IF IsNullish(Get(session, "enabled"))
                                   THEN Bool(type = Str("private"))
                                   ELSE Bool(~Truthy(Get(session, "enabled"))),
         viewPreferences       |-> Coalesce(Get(session, "viewPreferences"),
                                            getDefaultViewPreferences(IsGroupType(type))),
         messageFilters        |-> Coalesce(Get(session, "messageFilters"),
                                            getDefaultMessageFilters),
         usePerUserPreferences |-> Coalesce(Get(session, "usePerUserPreferences"),
                                            Bool(FALSE)),
         userPreferences       |-> Coalesce(Get(session, "userPreferences"),
                                            EmptyObj)])

\* ensureCompleteSession(session, chatType): a shallow merge, one `??` per
\* top-level field; a viewPreferences or messageFilters object that is present
\* is taken as it is.
ensureCompleteSession(session, type) ==
    Obj([enabled               |-> Coalesce(Get(session, "enabled"),
                                            Bool(type = Str("private"))),
         viewPreferences       |-> Coalesce(Get(session, "viewPreferences"),
                                            getDefaultViewPreferences(IsGroupType(type))),
         messageFilters        |-> Coalesce(Get(session, "messageFilters"),
                                            getDefaultMessageFilters),
         usePerUserPreferences |-> Coalesce(Get(session, "usePerUserPreferences"),
                                            Bool(FALSE)),
         userPreferences       |-> Coalesce(Get(session, "userPreferences"),
                                            EmptyObj)])

\* getEffectivePreferences that looks the user up without testing
\* usePerUserPreferences
getEffectivePreferences_NoFlag(sessionData, userId) ==
    LET session == ensureCompleteSession(sessionData, Undefined)
        users   == Get(session, "userPreferences")
    IN  IF ~Truthy(userId)
        THEN Get(session, "viewPreferences")
        ELSE IF Truthy(Get(users, Key(userId.n)))
             THEN Get(Get(users, Key(userId.n)), "viewPreferences")
             ELSE Get(session, "viewPreferences")

\* getEffectivePreferences(sessionData, userId); userId is a number or undefined
getEffectivePreferences(sessionData, userId) ==
    LET session == ensureCompleteSession(sessionData, Undefined)
        users   == Get(session, "userPreferences")
    IN  IF ~Truthy(Get(session, "usePerUserPreferences")) \/ ~Truthy(userId)
        THEN Get(session, "viewPreferences")
        ELSE IF Truthy(Get(users, Key(userId.n)))
             THEN Get(Get(users, Key(userId.n)), "viewPreferences")
             ELSE Get(session, "viewPreferences")

\* shouldProcessMessageType that consults the entry whatever respondToAll is
shouldProcessMessageType_EntriesOnly(filters, messageType) ==
    IF ~Truthy(filters) THEN Bool(TRUE)
    ELSE IF ~Truthy(Get(filters, "enabledTypes")) THEN Bool(TRUE)
    ELSE LET entry == Get(Get(filters, "enabledTypes"), messageType)
         IN  IF Truthy(entry) THEN entry ELSE Bool(FALSE)

\* shouldProcessMessageType(filters, messageType)
shouldProcessMessageType(filters, messageType) ==
    IF ~Truthy(filters) THEN Bool(TRUE)
    ELSE IF Get(filters, "respondToAll") # Bool(FALSE) THEN Bool(TRUE)
    ELSE IF ~Truthy(Get(filters, "enabledTypes")) THEN Bool(TRUE)
    ELSE LET entry == Get(Get(filters, "enabledTypes"), messageType)
         IN  IF Truthy(entry) THEN entry ELSE Bool(FALSE)

-----------------------------------------------------------------------------
(* Text: a string as the sequence of its character codes (0 .. 255), the      *)
(* form in which JSON.stringify, btoa, atob and JSON.parse are modelled.      *)

\* the printable ASCII characters, code 32 (space) to code 126 (~); code 96,
\* the grave accent, cannot be written in a string and goes by its name
AsciiChars ==
    <<
       " ", "!", "\"", "#", "$", "%", "&", "'", "(", ")", "*", "+", ",",
       "-", ".", "/", "0", "1", "2", "3", "4", "5", "6", "7", "8", "9",
       ":", ";", "<", "=", ">", "?", "@", "A", "B", "C", "D", "E", "F",
       "G", "H", "I", "J", "K", "L", "M", "N", "O", "P", "Q", "R", "S",
       "T", "U", "V", "W", "X", "Y", "Z", "[", "\\", "]", "^", "_", "grave",
       "a", "b", "c", "d", "e", "f", "g", "h", "i", "j", "k", "l", "m",
       "n", "o", "p", "q", "r", "s", "t", "u", "v", "w", "x", "y", "z",
       "{", "|", "}", "~"
    >>

\* the code of a printable ASCII character
CodeOf == [c \in {AsciiChars[i] : i \in DOMAIN AsciiChars} |->
              31 + (CHOOSE i \in DOMAIN AsciiChars : AsciiChars[i] = c)]

\* Text(chars): a literal, written as the sequence of its characters
Text(chars) == [i \in DOMAIN chars |-> CodeOf[chars[i]]]

\* the string a text spells (its characters are printable ASCII)
RECURSIVE StringOf(_)
StringOf(t) ==
    IF t = <<>> THEN "" ELSE AsciiChars[Head(t) - 31] \o StringOf(Tail(t))

IsPrintable(t) == \A i \in DOMAIN t : t[i] \in 32 .. 126


\* how the strings the program writes (property names, display modes) are spelt
Spelling ==
       ("v" :> <<"v">>)
    @@ ("f" :> <<"f">>)
    @@ ("u" :> <<"u">>)
    @@ ("displayMode" :> <<"d", "i", "s", "p", "l", "a", "y", "M", "o", "d", "e">>)
    @@ ("showForwardInfo" :> <<"s", "h", "o", "w", "F", "o", "r", "w", "a", "r", "d", "I", "n", "f", "o">>)
    @@ ("showAuthorInfo" :> <<"s", "h", "o", "w", "A", "u", "t", "h", "o", "r", "I", "n", "f", "o">>)
    @@ ("privacyOptions" :> <<"p", "r", "i", "v", "a", "c", "y", "O", "p", "t", "i", "o", "n", "s">>)
    @@ ("maskUserIds" :> <<"m", "a", "s", "k", "U", "s", "e", "r", "I", "d", "s">>)
    @@ ("maskPhoneNumbers" :> <<"m", "a", "s", "k", "P", "h", "o", "n", "e", "N", "u", "m", "b", "e", "r", "s">>)
    @@ ("maskChatIds" :> <<"m", "a", "s", "k", "C", "h", "a", "t", "I", "d", "s">>)
    @@ ("enabledTypes" :> <<"e", "n", "a", "b", "l", "e", "d", "T", "y", "p", "e", "s">>)
    @@ ("respondToAll" :> <<"r", "e", "s", "p", "o", "n", "d", "T", "o", "A", "l", "l">>)
    @@ ("text" :> <<"t", "e", "x", "t">>)
    @@ ("photo" :> <<"p", "h", "o", "t", "o">>)
    @@ ("video" :> <<"v", "i", "d", "e", "o">>)
    @@ ("document" :> <<"d", "o", "c", "u", "m", "e", "n", "t">>)
    @@ ("audio" :> <<"a", "u", "d", "i", "o">>)
    @@ ("sticker" :> <<"s", "t", "i", "c", "k", "e", "r">>)
    @@ ("animation" :> <<"a", "n", "i", "m", "a", "t", "i", "o", "n">>)
    @@ ("voice" :> <<"v", "o", "i", "c", "e">>)
    @@ ("poll" :> <<"p", "o", "l", "l">>)
    @@ ("location" :> <<"l", "o", "c", "a", "t", "i", "o", "n">>)
    @@ ("contact" :> <<"c", "o", "n", "t", "a", "c", "t">>)
    @@ ("forward" :> <<"f", "o", "r", "w", "a", "r", "d">>)
    @@ ("enabled" :> <<"e", "n", "a", "b", "l", "e", "d">>)
    @@ ("viewPreferences" :> <<"v", "i", "e", "w", "P", "r", "e", "f", "e", "r", "e", "n", "c", "e", "s">>)
    @@ ("messageFilters" :> <<"m", "e", "s", "s", "a", "g", "e", "F", "i", "l", "t", "e", "r", "s">>)
    @@ ("usePerUserPreferences" :> <<"u", "s", "e", "P", "e", "r", "U", "s", "e", "r", "P", "r", "e", "f", "e", "r", "e", "n", "c", "e", "s">>)
    @@ ("userPreferences" :> <<"u", "s", "e", "r", "P", "r", "e", "f", "e", "r", "e", "n", "c", "e", "s">>)
    @@ ("compact" :> <<"c", "o", "m", "p", "a", "c", "t">>)
    @@ ("full" :> <<"f", "u", "l", "l">>)
    @@ ("raw" :> <<"r", "a", "w">>)
    @@ ("0" :> <<"0">>)
    @@ ("1" :> <<"1">>)
    @@ ("2" :> <<"2">>)
    @@ ("3" :> <<"3">>)
    @@ ("4" :> <<"4">>)
    @@ ("5" :> <<"5">>)
    @@ ("6" :> <<"6">>)
    @@ ("7" :> <<"7">>)
    @@ ("8" :> <<"8">>)
    @@ ("9" :> <<"9">>)
    @@ ("update_id" :> <<"u", "p", "d", "a", "t", "e", "_", "i", "d">>)
    @@ ("message" :> <<"m", "e", "s", "s", "a", "g", "e">>)
    @@ ("message_id" :> <<"m", "e", "s", "s", "a", "g", "e", "_", "i", "d">>)
    @@ ("from" :> <<"f", "r", "o", "m">>)
    @@ ("id" :> <<"i", "d">>)
    @@ ("first_name" :> <<"f", "i", "r", "s", "t", "_", "n", "a", "m", "e">>)
    @@ ("last_name" :> <<"l", "a", "s", "t", "_", "n", "a", "m", "e">>)
    @@ ("chat" :> <<"c", "h", "a", "t">>)
    @@ ("title" :> <<"t", "i", "t", "l", "e">>)
    @@ ("type" :> <<"t", "y", "p", "e">>)
    @@ ("date" :> <<"d", "a", "t", "e">>)
    @@ ("forward_origin" :> <<"f", "o", "r", "w", "a", "r", "d", "_", "o", "r", "i", "g", "i", "n">>)
    @@ ("sender_user" :> <<"s", "e", "n", "d", "e", "r", "_", "u", "s", "e", "r">>)
    @@ ("sender_user_name" :> <<"s", "e", "n", "d", "e", "r", "_", "u", "s", "e", "r", "_", "n", "a", "m", "e">>)
    @@ ("sender_chat" :> <<"s", "e", "n", "d", "e", "r", "_", "c", "h", "a", "t">>)
    @@ ("author_signature" :> <<"a", "u", "t", "h", "o", "r", "_", "s", "i", "g", "n", "a", "t", "u", "r", "e">>)
    @@ ("private" :> <<"p", "r", "i", "v", "a", "t", "e">>)
    @@ ("user" :> <<"u", "s", "e", "r">>)
    @@ ("hidden_user" :> <<"h", "i", "d", "d", "e", "n", "_", "u", "s", "e", "r">>)
    @@ ("channel" :> <<"c", "h", "a", "n", "n", "e", "l">>)
    @@ ("story" :> <<"s", "t", "o", "r", "y">>)
    @@ ("hi" :> <<"h", "i">>)
    @@ ("a<b & \"c\"" :> <<"a", "<", "b", " ", "&", " ", "\"", "c", "\"">>)
    @@ ("Ann" :> <<"A", "n", "n">>)
    @@ ("Lee" :> <<"L", "e", "e">>)
    @@ ("News" :> <<"N", "e", "w", "s">>)
    @@ ("sig" :> <<"s", "i", "g">>)
    @@ ("supergroup" :> <<"s", "u", "p", "e", "r", "g", "r", "o", "u", "p">>)
    @@ ("group" :> <<"g", "r", "o", "u", "p">>)
    @@ ("User" :> <<"U", "s", "e", "r">>)
    @@ ("unknown" :> <<"u", "n", "k", "n", "o", "w", "n">>)
    @@ ("xxxxxxxxxxxxxxxxxxxxxxxxxxxxxxxxxxxxxxxxxxxxxxxxxxxxxxxxxxxxxxxxxxxxxxxxxxxxxxxxxxxxxxxxxxxxxxxxxxxxx" :> <<"x", "x", "x", "x", "x", "x", "x", "x", "x", "x", "x", "x", "x", "x", "x", "x", "x", "x", "x", "x", "x", "x", "x", "x", "x", "x", "x", "x", "x", "x", "x", "x", "x", "x", "x", "x", "x", "x", "x", "x", "x", "x", "x", "x", "x", "x", "x", "x", "x", "x", "x", "x", "x", "x", "x", "x", "x", "x", "x", "x", "x", "x", "x", "x", "x", "x", "x", "x", "x", "x", "x", "x", "x", "x", "x", "x", "x", "x", "x", "x", "x", "x", "x", "x", "x", "x", "x", "x", "x", "x", "x", "x", "x", "x", "x", "x", "x", "x", "x", "x", "x">>)

\* the text of a string
Chars(str) == Text(Spelling[str])

Ch(c) == CodeOf[c]

\* a thrown exception, as the value of the call that threw it
Thrown(e) == [ty |-> "throw", e |-> e]
IsThrown(v) == v.ty = "throw"

\* a string a call returns, with its text
Txt(t) == [ty |-> "string", t |-> t]

(* JSON.stringify *)

\* the order in which JSON.stringify meets the properties of the objects the
\* program builds: the order in which the source writes them. Every property
\* name of the model is one of these.
PropertyOrder ==
    <<"0", "1", "2", "3", "4", "5", "6", "7", "8", "9",
      "update_id", "message", "message_id", "from", "id", "first_name",
      "last_name", "chat", "title", "type", "date", "forward_origin",
      "sender_user", "sender_user_name", "sender_chat", "author_signature",
      "enabled", "viewPreferences", "messageFilters",
      "usePerUserPreferences", "userPreferences",
      "v", "f", "u",
      "displayMode", "showForwardInfo", "showAuthorInfo", "privacyOptions",
      "maskUserIds", "maskPhoneNumbers", "maskChatIds",
      "enabledTypes", "respondToAll",
      "text", "photo", "video", "document", "audio", "sticker",
      "animation", "voice", "poll", "location", "contact", "forward">>

\* the properties JSON.stringify writes: those whose value is not undefined
OwnKeys(o) ==
    SelectSeq(PropertyOrder, LAMBDA k : k \in DOMAIN o /\ o[k] # Undefined)

\* a string literal: quotes around the text, with " and \ escaped
RECURSIVE Escaped(_)
Escaped(t) ==
    IF t = <<>> THEN <<>>
    ELSE (IF Head(t) \in {Ch("\""), Ch("\\")} THEN <<Ch("\\"), Head(t)>> ELSE <<Head(t)>>)
         \o Escaped(Tail(t))

Quoted(t) == <<Ch("\"")>> \o Escaped(t) \o <<Ch("\"")>>

\* the decimal digits of a natural number
RECURSIVE Decimal(_)
Decimal(n) ==
    IF n < 10 THEN <<Ch("0") + n>> ELSE Decimal(n \div 10) \o <<Ch("0") + (n % 10)>>

RECURSIVE JSONStringify(_)
RECURSIVE StringifyMembers(_, _)
RECURSIVE StringifyElements(_)

StringifyMembers(o, keys) ==
    IF keys = <<>> THEN <<>>
    ELSE LET member == Quoted(Chars(Head(keys))) \o <<Ch(":")>> \o JSONStringify(o[Head(keys)])
         IN  IF Len(keys) = 1 THEN member
             ELSE member \o <<Ch(",")>> \o StringifyMembers(o, Tail(keys))

StringifyElements(a) ==
    IF a = <<>> THEN <<>>
    ELSE LET element == IF Head(a) = Undefined THEN Text(<<"n", "u", "l", "l">>) ELSE JSONStringify(Head(a))
         IN  IF Len(a) = 1 THEN element
             ELSE element \o <<Ch(",")>> \o StringifyElements(Tail(a))

\* JSON.stringify(v), v not undefined
JSONStringify(v) ==
    CASE v.ty = "null"    -> Text(<<"n", "u", "l", "l">>)
      [] v.ty = "boolean" -> IF v.b THEN Text(<<"t", "r", "u", "e">>)
                                    ELSE Text(<<"f", "a", "l", "s", "e">>)
      [] v.ty = "number"  -> IF v.n < 0 THEN <<Ch("-")>> \o Decimal(-v.n) ELSE Decimal(v.n)
      [] v.ty = "string"  -> Quoted(Chars(v.s))
      [] v.ty = "array"   -> <<Ch("[")>> \o StringifyElements(v.a) \o <<Ch("]")>>
      [] v.ty = "object"  -> <<Ch("{")>> \o StringifyMembers(v.o, OwnKeys(v.o)) \o <<Ch("}")>>

(* JSON.parse *)

\* a step of the parser: a value and the position after it, or the error
Parsed(v, i) == [ok |-> TRUE, v |-> v, i |-> i]
Failed(why)  == [ok |-> FALSE, why |-> why]

\* JSON text outside the part of the grammar modelled here (string escapes
\* other than \" \\ \/, characters above code 126 inside strings, numbers
\* with a fraction or an exponent): no input of the model is such a text
Unsupported == Failed("unsupported")

SyntaxError == Failed("SyntaxError")

At(t, i, c) == i <= Len(t) /\ t[i] = Ch(c)

IsDigit(t, i) == i <= Len(t) /\ t[i] \in Ch("0") .. Ch("9")

\* the literal lit stands at position i of t
Stands(t, i, lit) ==
    /\ i + Len(lit) - 1 <= Len(t)
    /\ \A j \in DOMAIN lit : t[i + j - 1] = Ch(lit[j])

RECURSIVE SkipWs(_, _)
SkipWs(t, i) ==
    IF i <= Len(t) /\ t[i] \in {9, 10, 13, 32} THEN SkipWs(t, i + 1) ELSE i

\* the characters of a string literal after its opening quote
RECURSIVE ParseString(_, _, _)
ParseString(t, i, acc) ==
    IF i > Len(t) THEN SyntaxError
    ELSE IF t[i] = Ch("\"") THEN Parsed(Str(acc), i + 1)
    ELSE IF t[i] = Ch("\\") THEN
        IF i + 1 > Len(t) THEN SyntaxError
        ELSE IF t[i + 1] \in {Ch("\""), Ch("\\"), Ch("/")}
             THEN ParseString(t, i + 2, acc \o AsciiChars[t[i + 1] - 31])
        ELSE IF t[i + 1] \in {Ch("b"), Ch("f"), Ch("n"), Ch("r"), Ch("t"), Ch("u")}
             THEN Unsupported
        ELSE SyntaxError
    ELSE IF t[i] < 32 THEN SyntaxError
    ELSE IF t[i] > 126 THEN Unsupported
    ELSE ParseString(t, i + 1, acc \o AsciiChars[t[i] - 31])

RECURSIVE ParseDigits(_, _, _)
ParseDigits(t, i, acc) ==
    IF IsDigit(t, i) THEN ParseDigits(t, i + 1, 10 * acc + (t[i] - Ch("0")))
    ELSE Parsed(acc, i)

\* -? (0 | [1-9][0-9]*), at position i
ParseNumber(t, i) ==
    LET neg  == At(t, i, "-")
        j    == IF neg THEN i + 1 ELSE i
        int  == IF At(t, j, "0") THEN Parsed(0, j + 1) ELSE ParseDigits(t, j, 0)
    IN  IF ~IsDigit(t, j) THEN SyntaxError
        ELSE IF At(t, int.i, ".") \/ At(t, int.i, "e") \/ At(t, int.i, "E") THEN Unsupported
        ELSE Parsed(Num(IF neg THEN -int.v ELSE int.v), int.i)

RECURSIVE ParseValue(_, _)
RECURSIVE ParseMembers(_, _, _)
RECURSIVE ParseElements(_, _, _)

\* the members of an object from position i (a property name), acc those read
\* so far; a name read twice keeps its last value
ParseMembers(t, i, acc) ==
    IF ~At(t, i, "\"") THEN SyntaxError
    ELSE LET name == ParseString(t, i + 1, "")
         IN  IF ~name.ok THEN name
             ELSE LET colon == SkipWs(t, name.i)
                  IN  IF ~At(t, colon, ":") THEN SyntaxError
                      ELSE LET value == ParseValue(t, colon + 1)
                           IN  IF ~value.ok THEN value
                               ELSE LET next == SkipWs(t, value.i)
                                        more == (name.v.s :> value.v) @@ acc
                                    IN  IF At(t, next, ",")
                                        THEN ParseMembers(t, SkipWs(t, next + 1), more)
                                        ELSE IF At(t, next, "}")
                                        THEN Parsed(Obj(more), next + 1)
                                        ELSE SyntaxError

ParseElements(t, i, acc) ==
    LET value == ParseValue(t, i)
    IN  IF ~value.ok THEN value
        ELSE LET next == SkipWs(t, value.i)
                 more == Append(acc, value.v)
             IN  IF At(t, next, ",") THEN ParseElements(t, next + 1, more)
                 ELSE IF At(t, next, "]") THEN Parsed(Arr(more), next + 1)
                 ELSE SyntaxError

ParseValue(t, i0) ==
    LET i == SkipWs(t, i0)
    IN  IF i > Len(t) THEN SyntaxError
        ELSE IF At(t, i, "{") THEN
            LET j == SkipWs(t, i + 1)
            IN  IF At(t, j, "}") THEN Parsed(EmptyObj, j + 1) ELSE ParseMembers(t, j, <<>>)
        ELSE IF At(t, i, "[") THEN
            LET j == SkipWs(t, i + 1)
            IN  IF At(t, j, "]") THEN Parsed(Arr(<<>>), j + 1) ELSE ParseElements(t, j, <<>>)
        ELSE IF At(t, i, "\"") THEN ParseString(t, i + 1, "")
        ELSE IF Stands(t, i, <<"t", "r", "u", "e">>) THEN Parsed(Bool(TRUE), i + 4)
        ELSE IF Stands(t, i, <<"f", "a", "l", "s", "e">>) THEN Parsed(Bool(FALSE), i + 5)
        ELSE IF Stands(t, i, <<"n", "u", "l", "l">>) THEN Parsed(Null, i + 4)
        ELSE IF At(t, i, "-") \/ IsDigit(t, i) THEN ParseNumber(t, i)
        ELSE SyntaxError

\* JSON.parse(t): the value, or the SyntaxError thrown
JSONParse(t) ==
    LET r == ParseValue(t, 1)
    IN  IF ~r.ok THEN Thrown(r.why)
        ELSE IF SkipWs(t, r.i) <= Len(t) THEN Thrown("SyntaxError")
        ELSE r.v

(* btoa and atob *)

\* the character of the base64 alphabet for a 6-bit value: A-Z a-z 0-9 + /
Base64Char(n) ==
    IF n < 26 THEN Ch("A") + n
    ELSE IF n < 52 THEN Ch("a") + (n - 26)
    ELSE IF n < 62 THEN Ch("0") + (n - 52)
    ELSE IF n = 62 THEN Ch("+") ELSE Ch("/")

\* the 6-bit value of a character of the alphabet, -1 for any other character
Base64Value(c) ==
    IF c \in Ch("A") .. Ch("Z") THEN c - Ch("A")
    ELSE IF c \in Ch("a") .. Ch("z") THEN c - Ch("a") + 26
    ELSE IF c \in Ch("0") .. Ch("9") THEN c - Ch("0") + 52
    ELSE IF c = Ch("+") THEN 62
    ELSE IF c = Ch("/") THEN 63
    ELSE -1

\* btoa(t): three bytes make four characters, the last group padded with =
btoa(t) ==
    IF \E i \in DOMAIN t : t[i] > 255 THEN Thrown("InvalidCharacterError")
    ELSE LET n == Len(t)
             byte(j) == IF j <= n THEN t[j] ELSE 0
         IN  Txt([i \in 1 .. 4 * ((n + 2) \div 3) |->
                LET g  == 3 * ((i - 1) \div 4)
                    b0 == byte(g + 1)
                    b1 == byte(g + 2)
                    b2 == byte(g + 3)
                IN  CASE (i - 1) % 4 = 0 -> Base64Char(b0 \div 4)
                      [] (i - 1) % 4 = 1 -> Base64Char((b0 % 4) * 16 + b1 \div 16)
                      [] (i - 1) % 4 = 2 -> IF g + 2 > n THEN Ch("=")
                                            ELSE Base64Char((b1 % 16) * 4 + b2 \div 64)
                      [] (i - 1) % 4 = 3 -> IF g + 3 > n THEN Ch("=")
                                            ELSE Base64Char(b2 % 64)])

\* atob(t), the forgiving-base64 decode: ASCII whitespace is dropped, one or
\* two = are dropped from the end of a text whose length is a multiple of 4,
\* a length of 4k + 1 or a character outside the alphabet is an error, and the
\* bits left over after the last whole byte are dropped.
atob(t) ==
    LET d == SelectSeq(t, LAMBDA c : c \notin {9, 10, 12, 13, 32})
        m == Len(d)
        pad == IF m % 4 = 0 /\ m > 0 /\ d[m] = Ch("=")
               THEN (IF d[m - 1] = Ch("=") THEN 2 ELSE 1)
               ELSE 0
        n == m - pad
        six(j) == Base64Value(d[j])
    IN  IF n % 4 = 1 \/ \E j \in 1 .. n : six(j) = -1
        THEN Thrown("InvalidCharacterError")
        ELSE Txt([i \in 1 .. (3 * (n \div 4) + (IF n % 4 = 0 THEN 0 ELSE (n % 4) - 1)) |->
                LET g == 4 * ((i - 1) \div 3)
                IN  CASE (i - 1) % 3 = 0 -> six(g + 1) * 4 + six(g + 2) \div 16
                      [] (i - 1) % 3 = 1 -> (six(g + 2) % 16) * 16 + six(g + 3) \div 4
                      [] (i - 1) % 3 = 2 -> (six(g + 3) % 4) * 64 + six(g + 4)])

(* session.ts: the settings codec *)

\* generateExportCommand that leaves the per-user flag out of the export
generateExportCommand_FlagOmitted(sessionData) ==
    LET exportObj == Obj([v |-> Get(sessionData, "viewPreferences"),
                          f |-> Get(sessionData, "messageFilters")])
        base64  == btoa(JSONStringify(exportObj))
    IN  IF IsThrown(base64) THEN base64
        ELSE Txt(Text(<<"/", "i", "m", "p", "o", "r", "t", " ">>) \o base64.t)

\* generateExportCommand(sessionData): the text of the /import command
generateExportCommand(sessionData) ==
    LET exportObj == Obj([v |-> Get(sessionData, "viewPreferences"),
                          f |-> Get(sessionData, "messageFilters"),
                          u |-> Get(sessionData, "usePerUserPreferences")])
        jsonStr == JSONStringify(exportObj)
        base64  == btoa(jsonStr)
    IN  IF IsThrown(base64) THEN base64
        ELSE Txt(Text(<<"/", "i", "m", "p", "o", "r", "t", " ">>) \o base64.t)

\* the object importSettings builds from the parsed value
ImportedSettings(importObj) ==
    Obj([viewPreferences       |-> Get(importObj, "v"),
         messageFilters        |-> Get(importObj, "f"),
         usePerUserPreferences |-> Get(importObj, "u")])

\* a try block that ends after JSON.parse: reading importObj.v of a parsed
\* null throws to the caller
ReadUnguarded(importObj) ==
    IF IsThrown(importObj) THEN Null
    ELSE IF Throws(importObj) THEN Thrown("TypeError")
    ELSE ImportedSettings(importObj)

\* importSettings with that shorter try block
importSettings_ParseGuardedOnly(base64) ==
    LET jsonStr == atob(base64)
    IN  IF IsThrown(jsonStr) THEN Null ELSE ReadUnguarded(JSONParse(jsonStr.t))

\* the rest of the try block once JSON.parse has been called: a SyntaxError,
\* or the TypeError of reading importObj.v of a parsed null, is caught
ReadGuarded(importObj) ==
    IF IsThrown(importObj) THEN Null
    ELSE IF Throws(importObj) THEN Null
    ELSE ImportedSettings(importObj)

\* importSettings(base64): every statement is inside the try block, and the
\* catch returns null
importSettings(base64) ==
    LET jsonStr == atob(base64)
    IN  IF IsThrown(jsonStr) THEN Null ELSE ReadGuarded(JSONParse(jsonStr.t))

(* applyPrivacyMask: the three replacements, each a scan of the text from    *)
(* left to right that replaces every match of its pattern and resumes after  *)
(* the match (String.prototype.replace with a /g pattern)                    *)

\* the texts of pieces, one after the other
RECURSIVE Concat(_, _, _)
Concat(pieces, lo, hi) ==
    IF lo > hi THEN <<>>
    ELSE IF lo = hi THEN pieces[lo]
    ELSE Concat(pieces, lo, (lo + hi) \div 2) \o Concat(pieces, (lo + hi) \div 2 + 1, hi)

Flatten(pieces) == Concat(pieces, 1, Len(pieces))

\* \d* at position i: how many digits stand there, and how many stand right
\* before it
RECURSIVE DigitRun(_, _)
DigitRun(t, i) == IF IsDigit(t, i) THEN 1 + DigitRun(t, i + 1) ELSE 0

RECURSIVE DigitsBefore(_, _)
DigitsBefore(t, i) ==
    IF i > 1 /\ IsDigit(t, i - 1) THEN 1 + DigitsBefore(t, i - 1) ELSE 0

Stars(n) == [j \in 1 .. n |-> Ch("*")]

Least(a, b) == IF a < b THEN a ELSE b

\* result.replace(/(\d{8,10})/g, '****$1****'): a run of digits is matched
\* ten digits at a time from its start, as long as eight or more are left.
\* Each position of the text gives the piece of the result written there:
\* the replacement where a match starts, nothing inside a match, the
\* character elsewhere.
ReplaceUserIds(t) ==
    Flatten([i \in DOMAIN t |->
        LET inMatch == DigitsBefore(t, i) % 10
            left    == DigitRun(t, i) + inMatch
        IN  IF IsDigit(t, i) /\ left >= 8
            THEN IF inMatch = 0
                 THEN Stars(4) \o SubSeq(t, i, i + Least(left, 10) - 1) \o Stars(4)
                 ELSE <<>>
            ELSE <<t[i]>>])

\* result.replace(/(\+\d{1,3})\d{6,}/g, '$1******'): \d{1,3} takes three
\* digits, or fewer when that is needed to leave six to \d{6,}
ReplacePhoneNumbers(t) ==
    Flatten([i \in DOMAIN t |->
        LET first == i - DigitsBefore(t, i)
        IN  IF At(t, i, "+") /\ DigitRun(t, i + 1) >= 7
            THEN SubSeq(t, i, i + Least(DigitRun(t, i + 1) - 6, 3)) \o Stars(6)
            ELSE IF IsDigit(t, i) /\ first > 1 /\ At(t, first - 1, "+")
                    /\ DigitRun(t, first) >= 7
            THEN <<>>
            ELSE <<t[i]>>])

\* result.replace(/(-100\d{6,})/g, '****$1****')
ReplaceChatIds(t) ==
    Flatten([i \in DOMAIN t |->
        LET first == i - DigitsBefore(t, i)
        IN  IF Stands(t, i, <<"-", "1", "0", "0">>) /\ DigitRun(t, i + 4) >= 6
            THEN Stars(4) \o SubSeq(t, i, i + 3 + DigitRun(t, i + 4)) \o Stars(4)
            ELSE IF IsDigit(t, i) /\ first > 1
                    /\ Stands(t, first - 1, <<"-", "1", "0", "0">>)
                    /\ DigitRun(t, first + 3) >= 6
            THEN <<>>
            ELSE <<t[i]>>])

ReplaceWhen(option, text, replaced) == IF Truthy(option) THEN replaced ELSE text

\* applyPrivacyMask(text, privacyOptions): user ids, then phone numbers, then
\* chat ids, each on the result of the one before
applyPrivacyMask(text, privacyOptions) ==
    LET users  == ReplaceWhen(Get(privacyOptions, "maskUserIds"), text.t,
                              ReplaceUserIds(text.t))
        phones == ReplaceWhen(Get(privacyOptions, "maskPhoneNumbers"), users,
                              ReplacePhoneNumbers(users))
    IN  Txt(ReplaceWhen(Get(privacyOptions, "maskChatIds"), phones,
                        ReplaceChatIds(phones)))

-----------------------------------------------------------------------------
(* typeGuards.ts: the five predicates on a forward origin *)

isMessageOriginUser(origin) == Get(origin, "type") = Str("user")

isMessageOriginHiddenUser(origin) == Get(origin, "type") = Str("hidden_user")

isMessageOriginChat(origin) == Get(origin, "type") = Str("chat")

isMessageOriginChannel(origin) == Get(origin, "type") = Str("channel")

\* isMessageOriginUnknown that looks for the tag "unknown"
isMessageOriginUnknown_Tagged(origin) == Get(origin, "type") = Str("unknown")

isMessageOriginUnknown(origin) ==
    Get(origin, "type") \notin {Str("user"), Str("hidden_user"), Str("chat"), Str("channel")}

-----------------------------------------------------------------------------
(* bot.ts: prettifyUpdate.  The text it returns is built character by       *)
(* character, as the template literals of the source spell it (a line feed  *)
(* is code 10, a character outside ASCII is its UTF-16 code units).          *)

\* the template literals of prettifyUpdate and the character references of
\* escapeHtml, each under the source line that spells it
Literal ==
    [
      \* part_000 219
      ForwardHeading |->
        Text(<<"<", "b", ">">>) \o <<55357, 56552>> \o Text(<<" ", "F", "O",
        "R", "W", "A", "R", "D", "E", "D", " ", "M", "E", "S", "S", "A", "G",
        "E", "<", "/", "b", ">">>) \o <<10>>,
      \* part_000 223
      FromUser |->
        Text(<<"<", "b", ">", "F", "r", "o", "m", " ", "U", "s", "e", "r", ":",
        "<", "/", "b", ">">>) \o <<10>> \o Text(<<"N", "a", "m", "e", ":",
        " ">>),
      \* part_000 225
      IdCode |->
        <<10>> \o Text(<<"I", "D", ":", " ", "<", "c", "o", "d", "e", ">">>),
      \* part_000 225
      EndCodeBlank |->
        Text(<<"<", "/", "c", "o", "d", "e", ">">>) \o <<10, 10>>,
      \* part_000 233
      EndCodeLine |->
        Text(<<"<", "/", "c", "o", "d", "e", ">">>) \o <<10>>,
      \* part_000 227
      FromHiddenUser |->
        Text(<<"<", "b", ">", "F", "r", "o", "m", " ", "H", "i", "d", "d", "e",
        "n", " ", "U", "s", "e", "r", ":", "<", "/", "b", ">">>) \o <<10>> \o
        Text(<<"N", "a", "m", "e", ":", " ">>),
      \* part_000 231
      FromChat |->
        Text(<<"<", "b", ">", "F", "r", "o", "m", " ", "C", "h", "a", "t", ":",
        "<", "/", "b", ">">>) \o <<10>> \o Text(<<"T", "i", "t", "l", "e",
        ":", " ">>),
      \* part_000 232
      NoChatTitle |->
        Text(<<"N", "o", " ", "C", "h", "a", "t", " ", "T", "i", "t", "l",
        "e">>),
      \* part_000 235
      AuthorSignature |->
        Text(<<"A", "u", "t", "h", "o", "r", " ", "S", "i", "g", "n", "a", "t",
        "u", "r", "e", ":", " ">>),
      \* part_000 242
      FromChannel |->
        Text(<<"<", "b", ">", "F", "r", "o", "m", " ", "C", "h", "a", "n", "n",
        "e", "l", ":", "<", "/", "b", ">">>) \o <<10>> \o Text(<<"T", "i",
        "t", "l", "e", ":", " ">>),
      \* part_000 244
      OriginalMessageId |->
        Text(<<"<", "/", "c", "o", "d", "e", ">">>) \o <<10>> \o Text(<<"O",
        "r", "i", "g", "i", "n", "a", "l", " ", "M", "e", "s", "s", "a", "g",
        "e", " ", "I", "D", ":", " ", "<", "c", "o", "d", "e", ">">>),
      \* part_000 255
      FromUnknown |->
        Text(<<"<", "b", ">", "F", "r", "o", "m", " ", "U", "n", "k", "n", "o",
        "w", "n", " ", "O", "r", "i", "g", "i", "n", " ", "T", "y", "p", "e",
        ":", "<", "/", "b", ">", " ">>),
      \* part_000 260
      FromUnrecognized |->
        Text(<<"<", "b", ">", "F", "r", "o", "m", " ", "a", "n", " ", "u", "n",
        "r", "e", "c", "o", "g", "n", "i", "z", "e", "d", " ", "o", "r", "i",
        "g", "i", "n", ".", "<", "/", "b", ">">>) \o <<10, 10>>,
      \* part_000 266
      AuthorHeading |->
        Text(<<"<", "b", ">">>) \o <<55357, 56420>> \o Text(<<" ", "A", "U",
        "T", "H", "O", "R", "<", "/", "b", ">">>) \o <<10>> \o Text(<<"<",
        "b", ">", "I", "D", ":", "<", "/", "b", ">", " ", "<", "c", "o", "d",
        "e", ">">>),
      \* part_000 278
      MessageInfoHeading |->
        Text(<<"<", "b", ">">>) \o <<55357, 56541>> \o Text(<<" ", "M", "E",
        "S", "S", "A", "G", "E", " ", "I", "N", "F", "O", "<", "/", "b",
        ">">>) \o <<10>>,
      \* part_000 301
      DetailedInfoHeading |->
        Text(<<"<", "b", ">">>) \o <<55357, 56541>> \o Text(<<" ", "D", "E",
        "T", "A", "I", "L", "E", "D", " ", "M", "E", "S", "S", "A", "G", "E",
        " ", "I", "N", "F", "O", "<", "/", "b", ">">>) \o <<10>>,
      \* part_000 279
      TypeLabel |->
        Text(<<"<", "b", ">", "T", "y", "p", "e", ":", "<", "/", "b", ">",
        " ">>),
      \* part_000 282
      ContentLabel |->
        Text(<<"<", "b", ">", "C", "o", "n", "t", "e", "n", "t", ":", "<", "/",
        "b", ">", " ", "<", "c", "o", "d", "e", ">">>),
      \* part_000 282
      EndCode |->
        Text(<<"<", "/", "c", "o", "d", "e", ">">>),
      \* part_000 282
      Ellipsis |->
        Text(<<".", ".", ".">>),
      \* part_000 286
      MessageIdLabel |->
        Text(<<"<", "b", ">", "M", "e", "s", "s", "a", "g", "e", " ", "I", "D",
        ":", "<", "/", "b", ">", " ", "<", "c", "o", "d", "e", ">">>),
      \* part_000 289
      ChatIdLabel |->
        Text(<<"<", "b", ">", "C", "h", "a", "t", " ", "I", "D", ":", "<", "/",
        "b", ">", " ", "<", "c", "o", "d", "e", ">">>),
      \* part_000 322
      RawHeading |->
        Text(<<"<", "b", ">">>) \o <<55357, 56580>> \o Text(<<" ", "R", "A",
        "W", " ", "U", "P", "D", "A", "T", "E", "<", "/", "b", ">">>) \o
        <<10>> \o Text(<<"<", "p", "r", "e", ">", "<", "c", "o", "d", "e",
        " ", "c", "l", "a", "s", "s", "=", "\"", "l", "a", "n", "g", "u",
        "a", "g", "e", "-", "j", "s", "o", "n", "\"", ">">>),
      \* part_000 324
      EndPre |->
        Text(<<"<", "/", "c", "o", "d", "e", ">", "<", "/", "p", "r", "e",
        ">">>),
      \* part_000 339
      UsageHint |->
        <<10>> \o Text(<<"<", "i", ">", "U", "s", "e", " ", "t", "h", "e", " ",
        "b", "u", "t", "t", "o", "n", "s", " ", "b", "e", "l", "o", "w", " ",
        "t", "o", " ", "c", "u", "s", "t", "o", "m", "i", "z", "e", " ", "t",
        "h", "e", " ", "v", "i", "e", "w", ".", "<", "/", "i", ">">>),
      \* part_000 3-11
      Amp |->
        Text(<<"&", "a", "m", "p", ";">>),
      \* part_000 3-11
      Lt |->
        Text(<<"&", "l", "t", ";">>),
      \* part_000 3-11
      Gt |->
        Text(<<"&", "g", "t", ";">>),
      \* part_000 3-11
      Quot |->
        Text(<<"&", "q", "u", "o", "t", ";">>),
      \* part_000 3-11
      Apos |->
        Text(<<"&", "#", "3", "9", ";">>)
    ]

\* escapeHtml(text): & < > " ' are written as character references
escapeHtml(t) ==
    Flatten([i \in DOMAIN t |->
        CASE t[i] = Ch("&")  -> Literal.Amp
          [] t[i] = Ch("<")  -> Literal.Lt
          [] t[i] = Ch(">")  -> Literal.Gt
          [] t[i] = Ch("\"") -> Literal.Quot
          [] t[i] = Ch("'")  -> Literal.Apos
          [] OTHER           -> <<t[i]>>])

\* JSON.stringify(v, null, 2): every member and element on a line of its
\* own, two more spaces in than the value that holds it
Spaces(n) == [j \in 1 .. n |-> Ch(" ")]

RECURSIVE StringifyIndented(_, _)
RECURSIVE IndentedMembers(_, _, _)
RECURSIVE IndentedElements(_, _)

IndentedMembers(o, keys, indent) ==
    IF keys = <<>> THEN <<>>
    ELSE Spaces(indent) \o Quoted(Chars(Head(keys))) \o <<Ch(":"), Ch(" ")>>
         \o StringifyIndented(o[Head(keys)], indent)
         \o (IF Len(keys) = 1 THEN <<>> ELSE <<Ch(","), 10>>)
         \o IndentedMembers(o, Tail(keys), indent)

IndentedElements(a, indent) ==
    IF a = <<>> THEN <<>>
    ELSE Spaces(indent)
         \o (IF Head(a) = Undefined THEN Text(<<"n", "u", "l", "l">>)
             ELSE StringifyIndented(Head(a), indent))
         \o (IF Len(a) = 1 THEN <<>> ELSE <<Ch(","), 10>>)
         \o IndentedElements(Tail(a), indent)

StringifyIndented(v, indent) ==
    CASE v.ty = "array" /\ v.a # <<>> ->
            <<Ch("["), 10>> \o IndentedElements(v.a, indent + 2)
            \o <<10>> \o Spaces(indent) \o <<Ch("]")>>
      [] v.ty = "object" /\ OwnKeys(v.o) # <<>> ->
            <<Ch("{"), 10>> \o IndentedMembers(v.o, OwnKeys(v.o), indent + 2)
            \o <<10>> \o Spaces(indent) \o <<Ch("}")>>
      [] OTHER -> JSONStringify(v)

\* ${v} in a template literal, v a number or a string
Interpolated(v) ==
    IF v.ty = "number" THEN JSONStringify(v) ELSE Chars(v.s)

\* text.substring(0, 100)
ContentLimit == 100

Substring(t, n) == SubSeq(t, 1, Least(Len(t), n))

\* the label of update.message: Text, Photo, Video, Document, Sticker, Other
MessageLabel(message) ==
    IF Truthy(Get(message, "text")) THEN Text(<<"T", "e", "x", "t">>)
    ELSE IF Truthy(Get(message, "photo")) THEN Text(<<"P", "h", "o", "t", "o">>)
    ELSE IF Truthy(Get(message, "video")) THEN Text(<<"V", "i", "d", "e", "o">>)
    ELSE IF Truthy(Get(message, "document"))
    THEN Text(<<"D", "o", "c", "u", "m", "e", "n", "t">>)
    ELSE IF Truthy(Get(message, "sticker"))
    THEN Text(<<"S", "t", "i", "c", "k", "e", "r">>)
    ELSE Text(<<"O", "t", "h", "e", "r">>)

\* the lines both the compact and the full mode write under their heading
MessageInfo(update, heading) ==
    LET message == Get(update, "message")
        text    == Get(message, "text")
        chatId  == GetIn(message, <<"chat", "id">>)
    IN  heading
        \o Literal.TypeLabel \o MessageLabel(message) \o <<10>>
        \o (IF Truthy(text)
            THEN Literal.ContentLabel \o escapeHtml(Substring(Chars(text.s), ContentLimit))
                 \o Literal.EndCode
                 \o (IF Len(Chars(text.s)) > ContentLimit THEN Literal.Ellipsis ELSE <<>>)
                 \o <<10>>
            ELSE <<>>)
        \o (IF Truthy(Get(message, "message_id"))
            THEN Literal.MessageIdLabel \o Interpolated(Get(message, "message_id")) \o Literal.EndCodeLine
            ELSE <<>>)
        \o Literal.ChatIdLabel
        \o (IF Truthy(chatId) THEN Interpolated(chatId)
            ELSE Text(<<"U", "n", "k", "n", "o", "w", "n">>))
        \o Literal.EndCodeBlank

RawUpdate(update) ==
    Literal.RawHeading \o escapeHtml(StringifyIndented(update, 0)) \o Literal.EndPre

\* `if (forward.author_signature) ... else ...`
Signature(forward) ==
    IF Truthy(Get(forward, "author_signature"))
    THEN Literal.AuthorSignature \o escapeHtml(Chars(Get(forward, "author_signature").s))
         \o <<10, 10>>
    ELSE <<10>>

\* the chain of type guards: the text written for the origin
ForwardOrigin(forward) ==
    IF isMessageOriginUser(forward)
    THEN Literal.FromUser
         \o escapeHtml(Chars(GetIn(forward, <<"sender_user", "first_name">>).s))
         \o <<Ch(" ")>>
         \o escapeHtml(IF Truthy(GetIn(forward, <<"sender_user", "last_name">>))
                       THEN Chars(GetIn(forward, <<"sender_user", "last_name">>).s)
                       ELSE <<>>)
         \o Literal.IdCode \o Interpolated(GetIn(forward, <<"sender_user", "id">>))
         \o Literal.EndCodeBlank
    ELSE IF isMessageOriginHiddenUser(forward)
    THEN Literal.FromHiddenUser \o escapeHtml(Chars(Get(forward, "sender_user_name").s))
         \o <<10, 10>>
    ELSE IF isMessageOriginChat(forward)
    THEN Literal.FromChat
         \o escapeHtml(IF IsNullish(GetIn(forward, <<"sender_chat", "title">>))
                       THEN Literal.NoChatTitle
                       ELSE Chars(GetIn(forward, <<"sender_chat", "title">>).s))
         \o Literal.IdCode \o Interpolated(GetIn(forward, <<"sender_chat", "id">>))
         \o Literal.EndCodeLine \o Signature(forward)
    ELSE IF isMessageOriginChannel(forward)
    THEN Literal.FromChannel \o escapeHtml(Chars(GetIn(forward, <<"chat", "title">>).s))
         \o Literal.IdCode \o Interpolated(GetIn(forward, <<"chat", "id">>))
         \o Literal.OriginalMessageId \o Interpolated(Get(forward, "message_id"))
         \o Literal.EndCodeLine \o Signature(forward)
    ELSE IF isMessageOriginUnknown(forward)
    THEN Literal.FromUnknown \o escapeHtml(Chars(Get(forward, "type").s)) \o <<10, 10>>
    ELSE Literal.FromUnrecognized

\* preferences.privacyOptions || { maskUserIds: false, ... }
MaskingOf(preferences) ==
    IF Truthy(Get(preferences, "privacyOptions")) THEN Get(preferences, "privacyOptions")
    ELSE Obj([maskUserIds      |-> Bool(FALSE),
              maskPhoneNumbers |-> Bool(TRUE),
              maskChatIds      |-> Bool(FALSE)])

\* prettifyUpdate with the author's block written before the forward block
prettifyUpdate_AuthorFirst(update, preferences, author, forward) ==
    LET mode == Get(preferences, "displayMode")
        forwardText ==
            IF Truthy(forward) /\ Truthy(Get(preferences, "showForwardInfo"))
            THEN Literal.ForwardHeading \o ForwardOrigin(forward) ELSE <<>>
        authorText ==
            IF Truthy(author) /\ Truthy(Get(preferences, "showAuthorInfo"))
            THEN Literal.AuthorHeading \o Interpolated(author) \o Literal.EndCodeBlank ELSE <<>>
        updateText ==
            IF mode = Str("raw") THEN RawUpdate(update)
            ELSE IF mode = Str("full")
            THEN MessageInfo(update, Literal.DetailedInfoHeading) \o RawUpdate(update)
            ELSE IF mode = Str("compact") THEN MessageInfo(update, Literal.MessageInfoHeading)
            ELSE <<>>
        result ==
            applyPrivacyMask(Txt(authorText \o forwardText \o updateText),
                             MaskingOf(preferences)).t
    IN  Txt(IF mode = Str("compact") THEN result \o Literal.UsageHint ELSE result)

\* prettifyUpdate(update, preferences, author, forward)
prettifyUpdate(update, preferences, author, forward) ==
    LET mode == Get(preferences, "displayMode")
        forwardText ==
            IF Truthy(forward) /\ Truthy(Get(preferences, "showForwardInfo"))
            THEN Literal.ForwardHeading \o ForwardOrigin(forward) ELSE <<>>
        authorText ==
            IF Truthy(author) /\ Truthy(Get(preferences, "showAuthorInfo"))
            THEN Literal.AuthorHeading \o Interpolated(author) \o Literal.EndCodeBlank ELSE <<>>
        updateText ==
            IF mode = Str("raw") THEN RawUpdate(update)
            ELSE IF mode = Str("full")
            THEN MessageInfo(update, Literal.DetailedInfoHeading) \o RawUpdate(update)
            ELSE IF mode = Str("compact") THEN MessageInfo(update, Literal.MessageInfoHeading)
            ELSE <<>>
        result ==
            applyPrivacyMask(Txt(forwardText \o authorText \o updateText),
                             MaskingOf(preferences)).t
    IN  Txt(IF mode = Str("compact") THEN result \o Literal.UsageHint ELSE result)

-----------------------------------------------------------------------------
(* bot.ts: the session middleware and the handlers.  A handler is an        *)
(* operator from the context of one update (ctx.session as the middleware    *)
(* gives it, the chat's type, the sender, the outcome of getChatMember) to   *)
(* the session it leaves and the messages it sends.                          *)

\* session({ initial }): the session of a chat that has no stored record
initial == ensureCompleteSession(Obj([enabled |-> Bool(TRUE)]), Undefined)

\* ctx.session as the middleware hands it to the handlers
SessionOf(stored) == IF stored = Undefined THEN initial ELSE stored

\* what a handler leaves: the session written back and the messages sent
Out(session, sent) == [session |-> session, reply |-> sent]

\* a handler left by an exception: what it had sent, and the exception; the
\* session middleware's write after next() is not reached
Rethrown(sent, e) == [reply |-> sent, thrown |-> e]

\* !v
Not(v) == Bool(~Truthy(v))

\* { ...v }: a new object holding the own properties of v
Spread(v) == IF v.ty = "object" THEN v ELSE EmptyObj

\* isUserAdmin that also accepts an ordinary member
isUserAdmin_MemberAccepted(ctx) ==
    IF ctx.chatType # Str("group") /\ ctx.chatType # Str("supergroup") THEN FALSE
    ELSE IF ctx.from = Undefined THEN FALSE
    ELSE IF IsThrown(ctx.chatMember) THEN FALSE
    ELSE ctx.chatMember \in {Str("administrator"), Str("creator"), Str("member")}

\* isUserAdmin that takes a failed query for an administrator
isUserAdmin_FailOpen(ctx) ==
    IF ctx.chatType # Str("group") /\ ctx.chatType # Str("supergroup") THEN FALSE
    ELSE IF ctx.from = Undefined THEN FALSE
    ELSE IF IsThrown(ctx.chatMember) THEN TRUE
    ELSE ctx.chatMember \in {Str("administrator"), Str("creator")}

\* isUserAdmin(ctx); ctx.chatMember is what getChatMember answers for the
\* sender: the member's status, or an exception
isUserAdmin(ctx) ==
    IF ctx.chatType # Str("group") /\ ctx.chatType # Str("supergroup") THEN FALSE
    ELSE IF ctx.from = Undefined THEN FALSE
    ELSE IF IsThrown(ctx.chatMember) THEN FALSE
    ELSE ctx.chatMember \in {Str("administrator"), Str("creator")}

\* !isPrivate && !isAdmin
Refused(ctx) == ctx.chatType # Str("private") /\ ~isUserAdmin(ctx)

\* handleBotAdded(ctx)
handleBotAdded(ctx) ==
    Out(Put(ensureCompleteSession(EmptyObj, ctx.chatType), "enabled", Bool(TRUE)),
        <<"BOT ADDED TO CHAT", "Hello!">>)

\* ctx.me.id
Me == MaxUserId + 1

\* bot.on(["chat_member", "my_chat_member"]); member is new_chat_member
onChatMember(ctx, member) ==
    LET isBot   == member.user = Num(Me)
        isAdded == member.status = "member" \/ member.status = "administrator"
    IN  IF isBot /\ isAdded THEN handleBotAdded(ctx) ELSE Out(ctx.session, <<>>)

\* /start and /help
commandStart(ctx) ==
    Out(ensureCompleteSession(ctx.session, ctx.chatType), <<"Welcome">>)

commandHelp(ctx) ==
    Out(ensureCompleteSession(ctx.session, ctx.chatType), <<"Bot Commands">>)

\* /toggle
commandToggle(ctx) ==
    LET session == ensureCompleteSession(ctx.session, ctx.chatType)
        toggled == Put(session, "enabled", Not(Get(session, "enabled")))
    IN  IF Refused(ctx) THEN Out(session, <<"Only group admins can use this command.">>)
        ELSE Out(toggled, IF Truthy(Get(toggled, "enabled"))
                          THEN <<"Bot is now enabled in this chat.">>
                          ELSE <<"Bot is now disabled in this chat.">>)

\* a getEffectivePreferences that stores the entry it did not find
Looked_EntryStored(sessionData, userId) ==
    LET entry == <<"userPreferences", Key(userId.n)>>
    IN  IF Truthy(Get(sessionData, "usePerUserPreferences")) /\ Truthy(userId)
           /\ ~Truthy(GetIn(sessionData, entry))
        THEN PutIn(sessionData, entry,
                   Obj([viewPreferences |-> Spread(Get(sessionData, "viewPreferences"))]))
        ELSE sessionData

\* sessionData once getEffectivePreferences(sessionData, userId) has
\* returned: the function assigns to nothing, and the session it completes
\* is an object of its own
Looked(sessionData, userId) == sessionData

\* /mode, /filter, /privacy, /userprefs: a panel is sent
commandMode(ctx) ==
    Out(Looked(ensureCompleteSession(ctx.session, ctx.chatType), ctx.from),
        <<"Select your preferred display options:">>)

commandFilter(ctx) ==
    Out(ensureCompleteSession(ctx.session, ctx.chatType),
        <<"Select message types to toggle:">>)

commandPrivacy(ctx) ==
    Out(Looked(ensureCompleteSession(ctx.session, ctx.chatType), ctx.from),
        <<"Privacy Settings">>)

commandUserprefs(ctx) ==
    Out(ensureCompleteSession(ctx.session, ctx.chatType), <<"User Preferences">>)

\* /admin
commandAdmin(ctx) ==
    LET session == ensureCompleteSession(ctx.session, ctx.chatType)
    IN  IF Refused(ctx) THEN Out(session, <<"Only group admins can use this command.">>)
        ELSE Out(session, <<"Admin Control Panel">>)

\* /export: the message carries generateExportCommand(ctx.session)
commandExport(ctx) ==
    Out(ensureCompleteSession(ctx.session, ctx.chatType), <<"Export Settings">>)

\* the settings codes the /import updates of the model carry: the codes
\* exported from two sessions, and codes written by hand
customised ==
    PutIn(PutIn(PutIn(PutIn(getDefaultSession(Str("supergroup")),
        <<"viewPreferences", "displayMode">>, Str("full")),
        <<"viewPreferences", "privacyOptions", "maskUserIds">>, Bool(TRUE)),
        <<"messageFilters", "respondToAll">>, Bool(FALSE)),
        <<"usePerUserPreferences">>, Bool(TRUE))

CommandPrefix == Text(<<"/", "i", "m", "p", "o", "r", "t", " ">>)

\* the code of an export command: the text after "/import "
CodeOfCommand(command) == SubSeq(command, Len(CommandPrefix) + 1, Len(command))

ExportedCodes ==
    { CodeOfCommand(generateExportCommand(s).t) :
        s \in {getDefaultSession(Str("private")), customised} }

\* a session with phone masking switched off, as a code written by hand
\* spells it
unmasked ==
    PutIn(getDefaultSession(Str("private")),
          <<"viewPreferences", "privacyOptions", "maskPhoneNumbers">>, Bool(FALSE))

CraftedCodes ==
    { CodeOfCommand(generateExportCommand(unmasked).t),
      <<>>,
      Text(<<"n", "o", "t", "-", "b", "a", "s", "e", "6", "4", "!", "!">>),
      btoa(Text(<<"n", "u", "l", "l">>)).t,
      btoa(Text(<<"{", "b", "a", "d">>)).t,
      btoa(Text(<<"{", "}">>)).t,
      btoa(Text(<<"4", "2">>)).t,
      btoa(Text(<<"{", "\"", "u", "\"", ":", "n", "u", "l", "l", "}">>)).t }

ImportCodes == ExportedCodes \cup CraftedCodes

\* importSettings(code), computed once for the codes of ImportCodes
ImportTable == [code \in ImportCodes |-> importSettings(code)]

DecodedSettings(code) ==
    IF code \in ImportCodes THEN ImportTable[code] ELSE importSettings(code)

\* the characters /\s/ matches, among the codes 0 .. 255
WhiteSpace == {9, 10, 11, 12, 13, 32, 160}

RECURSIVE PastWhiteSpace(_, _)
PastWhiteSpace(text, i) ==
    IF i <= Len(text) /\ text[i] \in WhiteSpace THEN PastWhiteSpace(text, i + 1) ELSE i

\* text.split(/\s+/) up to its second element (the handler reads args.length
\* against 2, and args[1])
Split(text) ==
    LET ws    == {i \in DOMAIN text : text[i] \in WhiteSpace}
        first == CHOOSE i \in ws : \A j \in ws : i <= j
        start == PastWhiteSpace(text, first)
        later == {i \in ws : i > start}
        end   == IF later = {} THEN Len(text)
                 ELSE (CHOOSE i \in later : \A j \in later : i <= j) - 1
    IN  IF ws = {} THEN <<text>>
        ELSE <<SubSeq(text, 1, first - 1), SubSeq(text, start, end)>>

\* `if (condition) session[k] = x`
PutWhen(condition, session, k, x) == IF condition THEN Put(session, k, x) ELSE session

\* ApplyImported that turns per-user preferences off before it looks at the
\* outcome of importSettings
ApplyImported_FlagCleared(session, importedSettings) ==
    LET v == Get(importedSettings, "viewPreferences")
        f == Get(importedSettings, "messageFilters")
        u == Get(importedSettings, "usePerUserPreferences")
        cleared == Put(session, "usePerUserPreferences", Bool(FALSE))
    IN  IF ~Truthy(importedSettings)
        THEN Out(cleared, <<"Invalid import code. Please check and try again.">>)
        ELSE Out(PutWhen(u # Undefined,
                         PutWhen(Truthy(f),
                                 PutWhen(Truthy(v), cleared, "viewPreferences", v),
                                 "messageFilters", f),
                         "usePerUserPreferences", u),
                 <<"Settings imported successfully!">>)

\* /import, from `if (!importedSettings)` on
ApplyImported(session, importedSettings) ==
    LET v == Get(importedSettings, "viewPreferences")
        f == Get(importedSettings, "messageFilters")
        u == Get(importedSettings, "usePerUserPreferences")
    IN  IF ~Truthy(importedSettings)
        THEN Out(session, <<"Invalid import code. Please check and try again.">>)
        ELSE Out(PutWhen(u # Undefined,
                         PutWhen(Truthy(f),
                                 PutWhen(Truthy(v), session, "viewPreferences", v),
                                 "messageFilters", f),
                         "usePerUserPreferences", u),
                 <<"Settings imported successfully!">>)

\* /import; text is ctx.message?.text (undefined for a channel post)
commandImport(ctx, text) ==
    LET session == ensureCompleteSession(ctx.session, ctx.chatType)
    IN  IF text = Undefined \/ Len(Split(text.t)) < 2
        THEN Out(session, <<"Please provide the settings code to import.">>)
        ELSE ApplyImported(session, DecodedSettings(Split(text.t)[2]))

\* ctx.session.usePerUserPreferences && ctx.from
PerUser(ctx, session) ==
    Truthy(Get(session, "usePerUserPreferences")) /\ ctx.from # Undefined

\* the session after `if (!userPreferences[id]) userPreferences[id] =
\* { viewPreferences: { ...ctx.session.viewPreferences } }`
WithUserEntry(ctx, session) ==
    LET entry == <<"userPreferences", Key(ctx.from.n)>>
    IN  IF ~Truthy(GetIn(session, entry))
        THEN PutIn(session, entry,
                   Obj([viewPreferences |-> Spread(Get(session, "viewPreferences"))]))
        ELSE session

\* a callback that always writes to the group's preferences
PreferencesOf_Group(ctx, session) == <<"viewPreferences">>

\* where the object the callback writes to (`preferences`) lies in the session
PreferencesOf(ctx, session) ==
    IF PerUser(ctx, session)
    THEN <<"userPreferences", Key(ctx.from.n), "viewPreferences">>
    ELSE <<"viewPreferences">>

\* view_(compact|full|raw)
callbackView(ctx, mode) ==
    LET session == ensureCompleteSession(ctx.session, ctx.chatType)
        s1 == IF PerUser(ctx, session) THEN WithUserEntry(ctx, session) ELSE session
    IN  Out(PutIn(s1, PreferencesOf(ctx, session) \o <<"displayMode">>, Str(mode)),
            <<"Display mode changed", "keyboard">>)

\* toggle_(forward|author)
callbackToggle(ctx, section) ==
    LET session == ensureCompleteSession(ctx.session, ctx.chatType)
        s1   == IF PerUser(ctx, session) THEN WithUserEntry(ctx, session) ELSE session
        flag == PreferencesOf(ctx, session) \o
                    <<IF section = "forward" THEN "showForwardInfo" ELSE "showAuthorInfo">>
    IN  Out(PutIn(s1, flag, Not(GetIn(s1, flag))),
            <<IF section = "forward" THEN "Forward info" ELSE "Author info", "keyboard">>)

\* privacy_(user_ids|chat_ids).  The entry created for the caller holds a
\* shallow copy of the chat's viewPreferences: its privacyOptions is the
\* chat's own privacyOptions object, and the write shows in both.
callbackPrivacy(ctx, option) ==
    LET session == ensureCompleteSession(ctx.session, ctx.chatType)
        s1      == IF PerUser(ctx, session) THEN WithUserEntry(ctx, session) ELSE session
        mask    == IF option = "user_ids" THEN "maskUserIds" ELSE "maskChatIds"
        flag    == PreferencesOf(ctx, session) \o <<"privacyOptions", mask>>
        shared  == PerUser(ctx, session) /\ s1 # session
        s2      == PutIn(s1, flag, Not(GetIn(s1, flag)))
    IN  Out(IF shared
            THEN PutIn(s2, <<"viewPreferences", "privacyOptions", mask>>, GetIn(s2, flag))
            ELSE s2,
            <<IF option = "user_ids" THEN "User IDs" ELSE "Chat IDs", "keyboard">>)

\* filter_(all|<type>|save)
callbackFilter(ctx, option) ==
    LET session == ensureCompleteSession(ctx.session, ctx.chatType)
        flag == IF option = "all" THEN <<"messageFilters", "respondToAll">>
                ELSE <<"messageFilters", "enabledTypes", option>>
    IN  IF option = "save"
        THEN Out(session, <<"Filter settings saved!", "Message filter settings have been saved.">>)
        ELSE Out(PutIn(session, flag, Not(GetIn(session, flag))),
                 <<IF option = "all" THEN "responding to all" ELSE "responding to type",
                   "keyboard">>)

\* userprefs_(toggle|view|reset)
callbackUserprefs(ctx, option) ==
    LET session == ensureCompleteSession(ctx.session, ctx.chatType)
        users   == Get(session, "userPreferences")
    IN  IF option = "toggle"
        THEN Out(Put(session, "usePerUserPreferences",
                     Not(Get(session, "usePerUserPreferences"))),
                 <<"Per-user preferences", "keyboard">>)
        ELSE IF option = "view" /\ ctx.from # Undefined
        THEN Out(session, <<"Showing your preferences", "Your Current Preferences">>)
        ELSE IF option = "reset" /\ ctx.from # Undefined
        THEN IF Has(users, Key(ctx.from.n))
             THEN Out(Put(session, "userPreferences", Del(users, Key(ctx.from.n))),
                      <<"Your preferences have been reset to group defaults">>)
             ELSE Out(session, <<"You're already using group defaults">>)
        ELSE Out(session, <<>>)

\* a reset that puts back the group settings and keeps the users' entries
callbackAdmin_ResetKeepsUsers(ctx, option) ==
    LET session == ensureCompleteSession(ctx.session, ctx.chatType)
        fresh   == ensureCompleteSession(EmptyObj, ctx.chatType)
    IN  IF Refused(ctx) THEN Out(session, <<"Only admins can use this feature">>)
        ELSE CASE option = "toggle" ->
                    Out(Put(session, "enabled", Not(Get(session, "enabled"))),
                        <<"Bot enabled or disabled", "keyboard">>)
               [] option = "export" ->
                    Out(session, <<"Generated export command", "Export Settings">>)
               [] option = "reset" ->
                    Out(Put(Put(fresh, "userPreferences", Get(session, "userPreferences")),
                            "enabled", Bool(TRUE)),
                        <<"All settings reset to defaults", "Admin Control Panel">>)
               [] option = "userprefs" ->
                    Out(session, <<"Opening user preferences panel", "User Preferences">>)
               [] option = "filters" ->
                    Out(session, <<"Opening message filters panel",
                                   "Select message types to toggle:">>)

\* admin_(toggle|export|reset|userprefs|filters)
callbackAdmin(ctx, option) ==
    LET session == ensureCompleteSession(ctx.session, ctx.chatType)
    IN  IF Refused(ctx) THEN Out(session, <<"Only admins can use this feature">>)
        ELSE CASE option = "toggle" ->
                    Out(Put(session, "enabled", Not(Get(session, "enabled"))),
                        <<"Bot enabled or disabled", "keyboard">>)
               [] option = "export" ->
                    Out(session, <<"Generated export command", "Export Settings">>)
               [] option = "reset" ->
                    Out(Put(ensureCompleteSession(EmptyObj, ctx.chatType),
                            "enabled", Bool(TRUE)),
                        <<"All settings reset to defaults", "Admin Control Panel">>)
               [] option = "userprefs" ->
                    Out(session, <<"Opening user preferences panel", "User Preferences">>)
               [] option = "filters" ->
                    Out(session, <<"Opening message filters panel",
                                   "Select message types to toggle:">>)

\* the fields of a message getMessageType looks at, in the order it looks
MessageFields ==
    <<"forward_origin", "text", "photo", "video", "document", "audio",
      "sticker", "animation", "voice", "poll", "location", "contact">>

\* getMessageType(ctx), from ctx.message
getMessageType(message) ==
    LET found == {i \in DOMAIN MessageFields : Truthy(Get(message, MessageFields[i]))}
        first == CHOOSE i \in found : \A j \in found : i <= j
    IN  IF ~Truthy(message) \/ found = {} THEN Null
        ELSE IF first = 1 THEN Str("forward")
        ELSE Str(MessageFields[first])

\* the outcomes of the handler's calls of ctx.reply, in the order it makes them
ReplyOutcomes == {"ok", "error"}
ApiOutcomes == {<<first, second>> : first \in ReplyOutcomes, second \in ReplyOutcomes}

\* the try block of bot.on("message"): it returns early, or throws before
\* the reply, or reaches ctx.reply with the formatted update
onMessageTry(ctx, message) ==
    LET completed   == ensureCompleteSession(ctx.session, ctx.chatType)
        messageType == getMessageType(message)
        preferences == getEffectivePreferences(completed, ctx.from)
        enabled     == Truthy(Get(completed, "enabled"))
        filtered    == Truthy(messageType)
                       /\ ~Truthy(shouldProcessMessageType(
                                      Get(completed, "messageFilters"), messageType.s))
        session     == IF enabled /\ ~filtered THEN Looked(completed, ctx.from)
                       ELSE completed
        at == IF Truthy(Get(session, "usePerUserPreferences")) /\ Truthy(ctx.from)
                 /\ Truthy(GetIn(session, <<"userPreferences", Key(ctx.from.n)>>))
              THEN <<"userPreferences", Key(ctx.from.n), "viewPreferences">>
              ELSE <<"viewPreferences">>
    IN  IF ~Truthy(Get(session, "enabled")) THEN [session |-> session, step |-> "return"]
        ELSE IF Truthy(messageType)
                /\ ~Truthy(shouldProcessMessageType(Get(session, "messageFilters"),
                                                    messageType.s))
        THEN [session |-> session, step |-> "return"]
        ELSE IF Throws(preferences) THEN [session |-> session, step |-> "throw"]
        ELSE IF Truthy(Get(preferences, "privacyOptions"))
        THEN [session |-> session, step |-> "reply"]
        ELSE IF preferences.ty # "object" THEN [session |-> session, step |-> "throw"]
        ELSE [session |-> PutIn(session, at \o <<"privacyOptions">>,
                                Obj([maskUserIds      |-> Bool(FALSE),
                                     maskPhoneNumbers |-> Bool(TRUE),
                                     maskChatIds      |-> Bool(FALSE)])),
              step |-> "reply"]

Apology == <<"Sorry, I encountered an error while processing your message.">>

\* the catch block of bot.on("message"): the apology is sent by another
\* ctx.reply, outside any try
onMessageCatch(session, outcome) ==
    IF outcome = "ok" THEN Out(session, Apology)
    ELSE Rethrown(<<>>, Thrown("GrammyError"))

\* bot.on("message"): the whole handler is inside try/catch, and the catch
\* sends the apology
onMessage(ctx, message, api) ==
    LET tried == onMessageTry(ctx, message)
    IN  IF tried.step = "return" THEN Out(tried.session, <<>>)
        ELSE IF tried.step = "throw" THEN onMessageCatch(tried.session, api[1])
        ELSE IF api[1] = "ok" THEN Out(tried.session, <<"update">>)
        ELSE onMessageCatch(tried.session, api[2])

-----------------------------------------------------------------------------
(* Direct calls of session.ts' functions (specification SpecFn) *)

ChatTypes == {"private", "group", "supergroup", "channel"}

\* the optional chatType argument
ChatTypeInputs == {Undefined} \cup {Str(t) : t \in ChatTypes}

ViewPrefs(mode, fwd, author, maskUsers, maskChats) ==
    Obj([displayMode     |-> Str(mode),
         showForwardInfo |-> Bool(fwd),
         showAuthorInfo  |-> Bool(author),
         privacyOptions  |-> Obj([maskUserIds      |-> Bool(maskUsers),
                                  maskPhoneNumbers |-> Bool(TRUE),
                                  maskChatIds      |-> Bool(maskChats)])])

\* the preferences user i has stored in the input sessions: different for
\* different users, and different from both default group preferences
UserViewPrefs(i) ==
    ViewPrefs(<<"full", "raw", "compact">>[(i % 3) + 1], i % 2 = 0, TRUE, TRUE, i % 2 = 1)

UserPrefsOf(ids) ==
    Obj([k \in {Key(i) : i \in ids} |->
            Obj([viewPreferences |-> UserViewPrefs(CHOOSE i \in ids : Key(i) = k)])])

\* an object holding the fields of record r that are given (not Undefined)
Partial(r) == Obj([k \in {j \in DOMAIN r : r[j] # Undefined} |-> r[k]])

EnabledInputs == {Undefined, Null, Bool(TRUE), Bool(FALSE)}

ViewPreferencesInputs ==
    { Undefined,
      getDefaultViewPreferences(TRUE),
      getDefaultViewPreferences(FALSE),
      ViewPrefs("full", FALSE, TRUE, FALSE, TRUE),
      Obj([displayMode |-> Str("raw")]),
      Obj([displayMode |-> Str("full"), showForwardInfo |-> Bool(FALSE),
           showAuthorInfo |-> Bool(TRUE),
           privacyOptions |-> Obj([maskUserIds |-> Bool(TRUE)])]),
      EmptyObj }

MessageFiltersInputs ==
    { Undefined,
      getDefaultMessageFilters,
      Obj([enabledTypes |-> Obj([t \in MessageType |-> Bool(t # "photo")]),
           respondToAll |-> Bool(FALSE)]),
      Obj([enabledTypes |-> Obj([t \in MessageType |-> Bool(FALSE)]),
           respondToAll |-> Bool(TRUE)]),
      Obj([enabledTypes |-> Obj([t \in MessageType |-> Bool(t = "text")])]),
      Obj([enabledTypes |-> Obj([photo |-> Bool(FALSE), text |-> Bool(TRUE)]),
           respondToAll |-> Bool(FALSE)]),
      Obj([enabledTypes |-> EmptyObj, respondToAll |-> Bool(FALSE)]),
      Obj([respondToAll |-> Bool(FALSE)]),
      EmptyObj }

UsePerUserInputs == {Undefined, Bool(TRUE), Bool(FALSE)}

UserPreferencesInputs == {Undefined} \cup {UserPrefsOf(ids) : ids \in SUBSET UserIds}

\* Partial<SessionData>: any of the five fields may be missing
PartialSessions ==
    { Partial([enabled |-> e, viewPreferences |-> v, messageFilters |-> f,
               usePerUserPreferences |-> u, userPreferences |-> p]) :
        e \in EnabledInputs, v \in ViewPreferencesInputs,
        f \in MessageFiltersInputs, u \in UsePerUserInputs,
        p \in UserPreferencesInputs }

\* SessionData as the type declares it at the top level; the nested objects
\* are those of ViewPreferencesInputs
SessionInputs ==
    { Obj([enabled |-> Bool(TRUE), viewPreferences |-> v,
           messageFilters |-> getDefaultMessageFilters,
           usePerUserPreferences |-> Bool(u), userPreferences |-> UserPrefsOf(ids)]) :
        v \in ViewPreferencesInputs \ {Undefined}, u \in BOOLEAN,
        ids \in SUBSET UserIds }

\* the optional userId argument
UserIdInputs == {Undefined} \cup {Num(i) : i \in UserIds}

NoUpdate == [kind |-> "none"]
NoCall   == [fn |-> "none"]

\* the call has not returned yet
Pending == [ty |-> "pending"]

botVars == <<chatType, store, given, last, reply, updates, err, inFlight>>

BotIdle ==
    /\ chatType = Undefined
    /\ store = Undefined
    /\ given = Undefined
    /\ last = NoUpdate
    /\ reply = <<>>
    /\ updates = 0
    /\ err = Undefined
    /\ inFlight = <<>>

FnCalls ==
    { [fn |-> "ensureCompleteSession", session |-> p, chatType |-> c] :
        p \in PartialSessions, c \in ChatTypeInputs }
    \cup
    { [fn |-> "getEffectivePreferences", session |-> s, userId |-> u] :
        s \in SessionInputs, u \in UserIdInputs }
    \cup
    { [fn |-> "shouldProcessMessageType", filters |-> f, messageType |-> t] :
        f \in MessageFiltersInputs, t \in MessageType }
    \cup
    { [fn |-> "getDefaultSession", chatType |-> c] : c \in ChatTypeInputs }

InitFn ==
    /\ BotIdle
    /\ call \in FnCalls
    /\ ret = Pending

CallEnsureCompleteSession ==
    /\ call.fn = "ensureCompleteSession"
    /\ ret = Pending
    /\ ret' = ensureCompleteSession(call.session, call.chatType)
    /\ UNCHANGED <<botVars, call>>

CallGetEffectivePreferences ==
    /\ call.fn = "getEffectivePreferences"
    /\ ret = Pending
    /\ ret' = getEffectivePreferences(call.session, call.userId)
    /\ UNCHANGED <<botVars, call>>

CallShouldProcessMessageType ==
    /\ call.fn = "shouldProcessMessageType"
    /\ ret = Pending
    /\ ret' = shouldProcessMessageType(call.filters, call.messageType)
    /\ UNCHANGED <<botVars, call>>

CallGetDefaultSession ==
    /\ call.fn = "getDefaultSession"
    /\ ret = Pending
    /\ ret' = getDefaultSession(call.chatType)
    /\ UNCHANGED <<botVars, call>>

NextFn ==
    \/ CallGetDefaultSession
    \/ CallEnsureCompleteSession
    \/ CallGetEffectivePreferences
    \/ CallShouldProcessMessageType

SpecFn == InitFn /\ [][NextFn]_vars

-----------------------------------------------------------------------------
(* The bot on one chat (specification Spec): updates arrive one at a time;   *)
(* each is handled whole: the middleware reads the chat's record (or makes   *)
(* the initial session), the handler runs, the session is written back.      *)

\* at most MaxUpdates updates are delivered
MaxUpdates == 2

\* the users who send updates (ctx.from, by its id)
Callers == {Num(i) : i \in 1 .. MaxUserId}

MemberStatuses ==
    {"creator", "administrator", "member", "restricted", "left", "kicked"}

\* what getChatMember answers: the sender's status, or an exception
ChatMemberAnswers == {Str(s) : s \in MemberStatuses} \cup {Thrown("GrammyError")}

\* a channel post has no sender
Senders == IF chatType = Str("channel") THEN {Undefined} ELSE Callers

\* getChatMember is asked only in a group or supergroup, about a sender
Answers(from) ==
    IF chatType \in {Str("group"), Str("supergroup")} /\ from # Undefined
    THEN ChatMemberAnswers ELSE {Undefined}

Context(from, answer) ==
    [session |-> SessionOf(store), chatType |-> chatType,
     from |-> from, chatMember |-> answer]

\* the message texts of the /import updates
ImportTexts ==
    {Txt(Text(<<"/", "i", "m", "p", "o", "r", "t">>))}
    \cup {Txt(CommandPrefix \o code) : code \in ImportCodes}

ViewModes      == {"compact", "full", "raw"}
Sections       == {"forward", "author"}
PrivacyOptions == {"user_ids", "chat_ids"}
FilterOptions  == {"all", "save", "text", "photo", "forward"}
UserprefsOptions == {"toggle", "view", "reset"}
AdminOptions   == {"toggle", "export", "reset", "userprefs", "filters"}

\* the messages sent to the chat: a text, a photo, a forwarded photo, and a
\* message with none of the twelve fields (a dice)
Messages ==
    { Obj([text |-> Str("text")]),
      Obj([photo |-> Arr(<<>>)]),
      Obj([forward_origin |-> EmptyObj, photo |-> Arr(<<>>)]),
      Obj([dice |-> EmptyObj]) }

Init ==
    /\ chatType \in {Str(t) : t \in ChatTypes}
    /\ store = Undefined
    /\ given = Undefined
    /\ last = NoUpdate
    /\ reply = <<>>
    /\ updates = 0
    /\ err = Undefined
    /\ inFlight = <<>>
    /\ call = NoCall
    /\ ret = Pending

\* one update handled: ctx.session as given, the handler's writes stored
Handle(update, out) ==
    /\ updates < MaxUpdates
    /\ updates' = updates + 1
    /\ given' = SessionOf(store)
    /\ last' = update
    /\ store' = IF "session" \in DOMAIN out THEN out.session ELSE store
    /\ reply' = out.reply
    /\ err' = IF "thrown" \in DOMAIN out THEN out.thrown ELSE Undefined
    /\ UNCHANGED <<chatType, inFlight, call, ret>>

Command(name, from, answer) ==
    [kind |-> "command", name |-> name, from |-> from, chatMember |-> answer]

Callback(data, option, from, answer) ==
    [kind |-> "callback", name |-> data, option |-> option, from |-> from,
     chatMember |-> answer]

\* old_chat_member.status of the chat member updates: the member was outside
\* the chat, a plain member of it, or an administrator
FormerStatuses == {"left", "member", "administrator"}

ChatMemberUpdate ==
    \E update \in {"chat_member", "my_chat_member"} :
      \E user \in Callers \cup {Num(Me)} :
        \E was \in FormerStatuses, status \in MemberStatuses :
          Handle([kind |-> update, user |-> user, was |-> was, status |-> status],
                 onChatMember(Context(Undefined, Undefined),
                              [user |-> user, status |-> status]))

Start ==
    \E from \in Senders :
        Handle(Command("start", from, Undefined), commandStart(Context(from, Undefined)))

Help ==
    \E from \in Senders :
        Handle(Command("help", from, Undefined), commandHelp(Context(from, Undefined)))

Toggle ==
    \E from \in Senders : \E answer \in Answers(from) :
        Handle(Command("toggle", from, answer), commandToggle(Context(from, answer)))

Mode ==
    \E from \in Senders :
        Handle(Command("mode", from, Undefined), commandMode(Context(from, Undefined)))

Filter ==
    \E from \in Senders :
        Handle(Command("filter", from, Undefined), commandFilter(Context(from, Undefined)))

Privacy ==
    \E from \in Senders :
        Handle(Command("privacy", from, Undefined), commandPrivacy(Context(from, Undefined)))

Userprefs ==
    \E from \in Senders :
        Handle(Command("userprefs", from, Undefined),
               commandUserprefs(Context(from, Undefined)))

Admin ==
    \E from \in Senders : \E answer \in Answers(from) :
        Handle(Command("admin", from, answer), commandAdmin(Context(from, answer)))

Export ==
    \E from \in Senders :
        Handle(Command("export", from, Undefined), commandExport(Context(from, Undefined)))

Import ==
    \E from \in Senders :
      \E text \in (IF chatType = Str("channel") THEN {Undefined} ELSE ImportTexts) :
        Handle([kind |-> "command", name |-> "import", from |-> from, text |-> text],
               commandImport(Context(from, Undefined), text))

ViewPressed ==
    \E from \in Callers : \E mode \in ViewModes :
        Handle(Callback("view", mode, from, Undefined),
               callbackView(Context(from, Undefined), mode))

TogglePressed ==
    \E from \in Callers : \E section \in Sections :
        Handle(Callback("toggle", section, from, Undefined),
               callbackToggle(Context(from, Undefined), section))

PrivacyPressed ==
    \E from \in Callers : \E option \in PrivacyOptions :
        Handle(Callback("privacy", option, from, Undefined),
               callbackPrivacy(Context(from, Undefined), option))

FilterPressed ==
    \E from \in Callers : \E option \in FilterOptions :
        Handle(Callback("filter", option, from, Undefined),
               callbackFilter(Context(from, Undefined), option))

UserprefsPressed ==
    \E from \in Callers : \E option \in UserprefsOptions :
        Handle(Callback("userprefs", option, from, Undefined),
               callbackUserprefs(Context(from, Undefined), option))

AdminPressed ==
    \E from \in Callers, option \in AdminOptions : \E answer \in Answers(from) :
        Handle(Callback("admin", option, from, answer),
               callbackAdmin(Context(from, answer), option))

\* bot.on("message"): a channel's posts are channel_post updates, not messages
Message ==
    /\ chatType # Str("channel")
    /\ \E from \in Callers : \E message \in Messages : \E api \in ApiOutcomes :
        Handle([kind |-> "message", message |-> message, from |-> from, api |-> api],
               onMessage(Context(from, Undefined), message, api))

Next ==
    \/ ChatMemberUpdate
    \/ Start
    \/ Help
    \/ Toggle
    \/ Mode
    \/ Filter
    \/ Privacy
    \/ Userprefs
    \/ Admin
    \/ Export
    \/ Import
    \/ ViewPressed
    \/ TogglePressed
    \/ PrivacyPressed
    \/ FilterPressed
    \/ UserprefsPressed
    \/ AdminPressed
    \/ Message

Spec == Init /\ [][Next]_vars

-----------------------------------------------------------------------------
(* The settings codec (specification SpecCodec): a session is exported, and  *)
(* the exported command is sent to another chat as its /import message; or   *)
(* importSettings is called on a code.                                       *)

\* the sessions exported: viewPreferences and messageFilters are objects,
\* usePerUserPreferences is a boolean
ExportSessions ==
    { Obj([enabled |-> Bool(TRUE), viewPreferences |-> v, messageFilters |-> f,
           usePerUserPreferences |-> Bool(u), userPreferences |-> UserPrefsOf({1})]) :
        v \in ViewPreferencesInputs \ {Undefined},
        f \in MessageFiltersInputs \ {Undefined}, u \in BOOLEAN }

\* the record of the chat the command is sent to, when it has one: the bot is
\* disabled there, and two users have preferences of their own
ImportingChat ==
    Obj([enabled |-> Bool(FALSE),
         viewPreferences |-> ViewPrefs("raw", FALSE, FALSE, TRUE, TRUE),
         messageFilters |-> Obj([enabledTypes |-> Obj([t \in MessageType |-> Bool(t # "voice")]),
                                 respondToAll |-> Bool(FALSE)]),
         usePerUserPreferences |-> Bool(TRUE),
         userPreferences |-> UserPrefsOf({1, 2})])

\* the chats where a command arrives as a message
MessageChatTypes == {Str("private"), Str("group"), Str("supergroup")}

\* the codes importSettings is called on: those of ImportCodes, the code of
\* one export with white space inside and with its padding removed, and the
\* codes of JSON texts that are not objects
CodeInputs ==
    ImportCodes
    \cup { <<Ch(" ")>> \o btoa(Text(<<"{", "}">>)).t \o <<10>>,
           SubSeq(btoa(Text(<<"{", "}">>)).t, 1, 3),
           btoa(Text(<<"t", "r", "u", "e">>)).t,
           btoa(Text(<<"[", "1", "]">>)).t,
           btoa(Text(<<"\"", "v", "\"">>)).t,
           btoa(Text(<<"{", "\"", "v", "\"", ":", "4", "2", "}">>)).t,
           btoa(Text(<<"{", "}", "x">>)).t,
           Text(<<"e", "3", "0", "=", "=">>),
           Text(<<"e", "3", "0", "=", "e", "3", "0", "=">>) }

CodecCalls ==
    { [fn |-> "generateExportCommand", session |-> s] : s \in ExportSessions }
    \cup
    { [fn |-> "importSettings", base64 |-> code] : code \in CodeInputs }

InitCodec ==
    /\ chatType \in MessageChatTypes
    /\ store \in {Undefined, ImportingChat}
    /\ given = Undefined
    /\ last = NoUpdate
    /\ reply = <<>>
    /\ updates = 0
    /\ err = Undefined
    /\ inFlight = <<>>
    /\ call \in CodecCalls
    /\ ret = Pending

CallGenerateExportCommand ==
    /\ call.fn = "generateExportCommand"
    /\ ret = Pending
    /\ ret' = generateExportCommand(call.session)
    /\ UNCHANGED <<botVars, call>>

CallImportSettings ==
    /\ call.fn = "importSettings"
    /\ ret = Pending
    /\ ret' = importSettings(call.base64)
    /\ UNCHANGED <<botVars, call>>

\* the exported command is sent to the chat, as it was produced
ImportExported ==
    /\ call.fn = "generateExportCommand"
    /\ ret # Pending
    /\ ~IsThrown(ret)
    /\ last = NoUpdate
    /\ \E from \in Callers :
        Handle([kind |-> "command", name |-> "import", from |-> from, text |-> ret],
               commandImport(Context(from, Undefined), ret))

NextCodec ==
    \/ CallGenerateExportCommand
    \/ CallImportSettings
    \/ ImportExported

SpecCodec == InitCodec /\ [][NextCodec]_vars

-----------------------------------------------------------------------------
(* Direct calls of applyPrivacyMask (specification SpecMask): the texts are  *)
(* made of at most MaxPieces pieces, among them digit runs of lengths that   *)
(* add up to every length the three patterns tell apart.                     *)

MaxPieces == 3

Pieces ==
    { Text(<<"+">>), Text(<<"-", "1", "0", "0">>), Text(<<" ">>),
      Text(<<"I", "D">>), Text(<<"1">>),
      Text(<<"2", "3", "4", "5", "6", "7">>),
      Text(<<"1", "2", "3", "4", "5", "6", "7", "8">>) }

RECURSIVE PieceTexts(_)
PieceTexts(n) ==
    IF n = 0 THEN {<<>>}
    ELSE PieceTexts(n - 1) \cup {p \o t : p \in Pieces, t \in PieceTexts(n - 1)}

\* "ID 123456789 call +14155552671"
IdAndPhone ==
    Text(<<"I", "D", " ", "1", "2", "3", "4", "5", "6", "7", "8", "9", " ",
           "c", "a", "l", "l", " ",
           "+", "1", "4", "1", "5", "5", "5", "5", "2", "6", "7", "1">>)

MaskTexts == PieceTexts(MaxPieces) \cup {IdAndPhone}

PrivacyOptionsInputs ==
    { Obj([maskUserIds |-> Bool(u), maskPhoneNumbers |-> Bool(p),
           maskChatIds |-> Bool(c)]) : u \in BOOLEAN, p \in BOOLEAN, c \in BOOLEAN }

MaskCalls ==
    { [fn |-> "applyPrivacyMask", text |-> Txt(t), privacyOptions |-> o] :
        t \in MaskTexts, o \in PrivacyOptionsInputs }

InitMask ==
    /\ BotIdle
    /\ call \in MaskCalls
    /\ ret = Pending

CallApplyPrivacyMask ==
    /\ call.fn = "applyPrivacyMask"
    /\ ret = Pending
    /\ ret' = applyPrivacyMask(call.text, call.privacyOptions)
    /\ UNCHANGED <<botVars, call>>

NextMask == CallApplyPrivacyMask

SpecMask == InitMask /\ [][NextMask]_vars

-----------------------------------------------------------------------------
(* Direct calls of prettifyUpdate (specification SpecFormat): the update is  *)
(* a message of a private chat, built from its sender, its forward origin    *)
(* and its content as ctx.update holds them.                                 *)

\* the forward origins: one of each known type, a chat origin with no title
\* and no signature, and origins of types the program does not know
Origins ==
    { Obj([type |-> Str("user"), date |-> Num(3),
           sender_user |-> Obj([id |-> Num(2), first_name |-> Str("Ann"),
                                last_name |-> Str("Lee")])]),
      Obj([type |-> Str("hidden_user"), date |-> Num(3),
           sender_user_name |-> Str("Ann")]),
      Obj([type |-> Str("chat"), date |-> Num(3),
           sender_chat |-> Obj([id |-> Num(4), title |-> Str("News"),
                                type |-> Str("supergroup")]),
           author_signature |-> Str("sig")]),
      Obj([type |-> Str("chat"), date |-> Num(3),
           sender_chat |-> Obj([id |-> Num(4), type |-> Str("private")])]),
      Obj([type |-> Str("channel"), date |-> Num(3),
           chat |-> Obj([id |-> Num(4), title |-> Str("News"),
                         type |-> Str("channel")]),
           message_id |-> Num(6)]),
      Obj([type |-> Str("story"), date |-> Num(3)]),
      Obj([type |-> Str("User"), date |-> Num(3)]) }

ForwardInputs == {Undefined} \cup Origins

\* a text of 101 characters
LongText ==
    Str("xxxxxxxxxxxxxxxxxxxxxxxxxxxxxxxxxxxxxxxxxxxxxxxxxxxxxxxxxxxxxxxxxxxxxxxxxxxxxxxxxxxxxxxxxxxxxxxxxxxxx")

\* what the message carries: a text (short, with characters of the markup,
\* longer than the summary shows), a photo, or none of these
Contents ==
    { Obj([text |-> Str("hi")]),
      Obj([text |-> Str("a<b & \"c\"")]),
      Obj([text |-> LongText]),
      Obj([photo |-> Arr(<<>>)]),
      EmptyObj }

AuthorInputs == {Undefined} \cup Callers

UpdateOf(author, forward, content) ==
    Obj([update_id |-> Num(1),
         message |->
            Obj([message_id     |-> Num(5),
                 from           |-> IF author = Undefined THEN Undefined
                                    ELSE Obj([id |-> author, first_name |-> Str("Ann")]),
                 chat           |-> Obj([id |-> Num(7), type |-> Str("private")]),
                 date           |-> Num(3),
                 forward_origin |-> forward,
                 text           |-> Get(content, "text"),
                 photo          |-> Get(content, "photo")])])

FormatPreferences ==
    { ViewPrefs(mode, fwd, author, mask, mask) :
        mode \in {"compact", "full", "raw"}, fwd \in BOOLEAN, author \in BOOLEAN,
        mask \in BOOLEAN }

FormatCalls ==
    { [fn |-> "prettifyUpdate", update |-> UpdateOf(a, f, c), preferences |-> p,
       author |-> a, forward |-> f] :
        a \in AuthorInputs, f \in ForwardInputs, c \in Contents,
        p \in FormatPreferences }

InitFormat ==
    /\ BotIdle
    /\ call \in FormatCalls
    /\ ret = Pending

CallPrettifyUpdate ==
    /\ call.fn = "prettifyUpdate"
    /\ ret = Pending
    /\ ret' = prettifyUpdate(call.update, call.preferences, call.author, call.forward)
    /\ UNCHANGED <<botVars, call>>

NextFormat == CallPrettifyUpdate

SpecFormat == InitFormat /\ [][NextFormat]_vars

-----------------------------------------------------------------------------
(* Two updates of one chat handled at once (specification SpecRace): the    *)
(* server of mod.ts starts handling a request without waiting for the one   *)
(* before it, and each run of the middleware stack reads the chat's record, *)
(* lets the handler work on its own ctx.session, and writes it back.        *)

\* the two runs of the middleware stack
Invocations == {1, 2}

Waiting == [pc |-> "waiting", update |-> NoUpdate, session |-> Undefined, out |-> Undefined]

\* the updates that arrive: /toggle, a press of a view_ button, a message
\* whose reply is delivered
RaceUpdates ==
    UNION { {Command("toggle", from, answer) : answer \in Answers(from)} : from \in Callers }
    \cup { Callback("view", mode, from, Undefined) : mode \in ViewModes, from \in Callers }
    \cup { [kind |-> "message", message |-> message, from |-> from, api |-> <<"ok", "ok">>] :
            message \in Messages, from \in Callers }

\* ctx of a run that read the record `session`
ContextOf(update, session) ==
    [session |-> session, chatType |-> chatType,
     from |-> update.from,
     chatMember |-> IF "chatMember" \in DOMAIN update THEN update.chatMember
                    ELSE Undefined]

\* the handler the update is routed to
Dispatch(update, session) ==
    IF update.kind = "command" THEN commandToggle(ContextOf(update, session))
    ELSE IF update.kind = "callback"
    THEN callbackView(ContextOf(update, session), update.option)
    ELSE onMessage(ContextOf(update, session), update.message, update.api)

\* a write that is given up when the record is no longer the one that was read
WrittenBack_IfUntouched(stored, read, out) ==
    IF "session" \in DOMAIN out /\ SessionOf(stored) = read THEN out.session ELSE stored

\* the session middleware after next(): ctx.session is written under the
\* chat's key, whatever the storage holds by then
WrittenBack(stored, read, out) ==
    IF "session" \in DOMAIN out THEN out.session ELSE stored

InitRace ==
    /\ chatType \in MessageChatTypes
    /\ store \in {Undefined, ImportingChat}
    /\ given = Undefined
    /\ last = NoUpdate
    /\ reply = <<>>
    /\ updates = 0
    /\ err = Undefined
    /\ inFlight = [i \in Invocations |-> Waiting]
    /\ call = NoCall
    /\ ret = Pending

\* an update arrives and the session middleware reads the chat's record
ReadSession(i) ==
    /\ inFlight[i].pc = "waiting"
    /\ \E update \in RaceUpdates :
        inFlight' = [inFlight EXCEPT ![i] =
                        [pc |-> "handling", update |-> update,
                         session |-> SessionOf(store), out |-> Undefined]]
    /\ updates' = updates + 1
    /\ UNCHANGED <<chatType, store, given, last, reply, err, call, ret>>

\* the handler runs on the ctx.session of its own run
RunHandler(i) ==
    /\ inFlight[i].pc = "handling"
    /\ inFlight' = [inFlight EXCEPT ![i] =
                        [pc |-> "handled", update |-> inFlight[i].update,
                         session |-> inFlight[i].session,
                         out |-> Dispatch(inFlight[i].update, inFlight[i].session)]]
    /\ UNCHANGED <<chatType, store, given, last, reply, updates, err, call, ret>>

\* the handler has returned and the session middleware writes ctx.session
WriteSession(i) ==
    /\ inFlight[i].pc = "handled"
    /\ store' = WrittenBack(store, inFlight[i].session, inFlight[i].out)
    /\ given' = inFlight[i].session
    /\ last' = inFlight[i].update
    /\ reply' = inFlight[i].out.reply
    /\ err' = IF "thrown" \in DOMAIN inFlight[i].out THEN inFlight[i].out.thrown ELSE Undefined
    /\ inFlight' = [inFlight EXCEPT ![i].pc = "done"]
    /\ UNCHANGED <<chatType, updates, call, ret>>

NextRace ==
    \/ \E i \in Invocations : ReadSession(i)
    \/ \E i \in Invocations : RunHandler(i)
    \/ \E i \in Invocations : WriteSession(i)

SpecRace == InitRace /\ [][NextRace]_vars

-----------------------------------------------------------------------------
(* The preference buttons pressed in a chat that may already have per-user  *)
(* entries (specification SpecScopes)                                       *)

\* the records the chat may have: none, one with per-user preferences on and
\* entries for users 1 and 2, the same with per-user preferences off, and
\* one where only user 2 has an entry
ScopeStores ==
    { Undefined,
      ImportingChat,
      Put(ImportingChat, "usePerUserPreferences", Bool(FALSE)),
      Put(ImportingChat, "userPreferences", UserPrefsOf({2})) }

InitScopes ==
    /\ chatType \in MessageChatTypes
    /\ store \in ScopeStores
    /\ given = Undefined
    /\ last = NoUpdate
    /\ reply = <<>>
    /\ updates = 0
    /\ err = Undefined
    /\ inFlight = <<>>
    /\ call = NoCall
    /\ ret = Pending

NextScopes ==
    \/ UserprefsPressed
    \/ ViewPressed
    \/ TogglePressed
    \/ PrivacyPressed

SpecScopes == InitScopes /\ [][NextScopes]_vars

-----------------------------------------------------------------------------
(* The admin panel's buttons pressed in a chat that already has per-user    *)
(* entries (specification SpecReset)                                        *)

NextReset ==
    \/ AdminPressed
    \/ UserprefsPressed

SpecReset == InitScopes /\ [][NextReset]_vars

-----------------------------------------------------------------------------
(* Messages sent to a chat whose filters have been set with the filter_     *)
(* buttons (specification SpecFilters)                                      *)

\* the record of a chat where the bot is on, respondToAll has been switched
\* off and so has every one of the twelve types
Silenced ==
    Put(Put(getDefaultSession(Str("private")), "enabled", Bool(TRUE)),
        "messageFilters",
        Obj([enabledTypes |-> Obj([t \in MessageType |-> Bool(FALSE)]),
             respondToAll |-> Bool(FALSE)]))

InitFilters ==
    /\ chatType \in MessageChatTypes
    /\ store \in {Undefined, Silenced}
    /\ given = Undefined
    /\ last = NoUpdate
    /\ reply = <<>>
    /\ updates = 0
    /\ err = Undefined
    /\ inFlight = <<>>
    /\ call = NoCall
    /\ ret = Pending

NextFilters ==
    \/ FilterPressed
    \/ Message

SpecFilters == InitFilters /\ [][NextFilters]_vars

-----------------------------------------------------------------------------
(* The claims about session.ts' functions, checked under SpecFn *)

Returned(fn) == call.fn = fn /\ ret # Pending

\* the entry userPreferences[id] of the session a getEffectivePreferences call
\* was given
EntryOf(id) == Get(Get(call.session, "userPreferences"), Key(id.n))

\* C3: with usePerUserPreferences = true, for every numeric user id that is a
\* key of userPreferences, getEffectivePreferences returns exactly that user's
\* stored viewPreferences and never the group viewPreferences.
C3_StoredEntryReturned ==
    ( /\ Returned("getEffectivePreferences")
      /\ Get(call.session, "usePerUserPreferences") = Bool(TRUE)
      /\ call.userId.ty = "number"
      /\ Has(Get(call.session, "userPreferences"), Key(call.userId.n)) )
    => /\ ret = Get(EntryOf(call.userId), "viewPreferences")
       /\ ret # Get(call.session, "viewPreferences")

\* C4: with usePerUserPreferences = false, getEffectivePreferences returns the
\* group viewPreferences for every user id, given or not, with or without an
\* entry; and so it does with usePerUserPreferences = true for a user who has
\* no entry.
C4_GroupPreferencesReturned ==
    ( /\ Returned("getEffectivePreferences")
      /\ \/ Get(call.session, "usePerUserPreferences") = Bool(FALSE)
         \/ /\ Get(call.session, "usePerUserPreferences") = Bool(TRUE)
            /\ call.userId.ty = "number"
            /\ ~Has(Get(call.session, "userPreferences"), Key(call.userId.n)) )
    => ret = Get(call.session, "viewPreferences")

\* C4's case: per-user preferences are off, the user has an entry that differs
\* from the group's preferences, and the group's are returned
C4_Witness ==
    /\ Returned("getEffectivePreferences")
    /\ Get(call.session, "usePerUserPreferences") = Bool(FALSE)
    /\ call.userId = Num(1)
    /\ Has(Get(call.session, "userPreferences"), Key(1))
    /\ Get(EntryOf(call.userId), "viewPreferences") # Get(call.session, "viewPreferences")
    /\ ret = Get(call.session, "viewPreferences")

\* filters.enabledTypes[t] is explicitly false, under respondToAll === false
ExplicitlyDenied(filters, t) ==
    /\ filters.ty = "object"
    /\ Get(filters, "respondToAll") = Bool(FALSE)
    /\ Get(Get(filters, "enabledTypes"), t) = Bool(FALSE)

\* C5: shouldProcessMessageType returns false if and only if filters is
\* present, respondToAll is strictly false and enabledTypes[t] is explicitly
\* false; in every other case (no filters, respondToAll true or missing, no
\* enabledTypes map, no entry for t) it returns true.
C5_DenyByExplicitFalseOnly ==
    Returned("shouldProcessMessageType")
    => ret = Bool(~ExplicitlyDenied(call.filters, call.messageType))

Present(v, k) == Has(v, k) /\ ~IsNullish(Get(v, k))

CompleteViewPreferences(v) ==
    /\ Present(v, "displayMode")
    /\ Present(v, "showForwardInfo")
    /\ Present(v, "showAuthorInfo")
    /\ Present(v, "privacyOptions")
    /\ \A k \in {"maskUserIds", "maskPhoneNumbers", "maskChatIds"} :
          Present(Get(v, "privacyOptions"), k)

CompleteMessageFilters(f) ==
    /\ Present(f, "respondToAll")
    /\ Present(f, "enabledTypes")
    /\ \A t \in MessageType : Present(Get(f, "enabledTypes"), t)

\* no field of SessionData is missing, at any level
CompleteSession(s) ==
    /\ \A k \in {"enabled", "viewPreferences", "messageFilters",
                 "usePerUserPreferences", "userPreferences"} : Present(s, k)
    /\ CompleteViewPreferences(Get(s, "viewPreferences"))
    /\ CompleteMessageFilters(Get(s, "messageFilters"))

\* C6: whatever the partial input and the chat type, the object
\* ensureCompleteSession returns has no missing field at any level, also when
\* the input's viewPreferences or messageFilters object lacks fields itself.
C6_NoMissingFieldAtAnyLevel ==
    Returned("ensureCompleteSession") => CompleteSession(ret)

\* C7: ensureCompleteSession is idempotent: applied to its own result, with
\* the same chat type (given or not), it returns that result.
C7_Idempotent ==
    Returned("ensureCompleteSession")
    => ensureCompleteSession(ret, call.chatType) = ret

\* C7's case: an input that the first application completes (it has a stored
\* enabled flag and lacks viewPreferences)
C7_Witness ==
    /\ Returned("ensureCompleteSession")
    /\ Get(call.session, "enabled") = Bool(FALSE)
    /\ ~Has(call.session, "viewPreferences")
    /\ ret # call.session

SessionFields ==
    {"enabled", "viewPreferences", "messageFilters",
     "usePerUserPreferences", "userPreferences"}

\* C8: ensureCompleteSession keeps every value present in its input, false
\* booleans included, and takes the chat type's default (getDefaultSession)
\* only for the fields that are absent; so a session that has all five fields
\* comes back as it was.
C8_ValueOrDefault ==
    Returned("ensureCompleteSession")
    => /\ \A k \in SessionFields :
             Get(ret, k) = IF Present(call.session, k)
                           THEN Get(call.session, k)
                           ELSE Get(getDefaultSession(call.chatType), k)
       /\ (\A k \in SessionFields : Present(call.session, k)) => ret = call.session

\* C8's case: a private chat whose stored session is disabled and uses
\* per-user preferences
C8_Witness ==
    /\ Returned("ensureCompleteSession")
    /\ call.chatType = Str("private")
    /\ Get(call.session, "enabled") = Bool(FALSE)
    /\ Get(call.session, "usePerUserPreferences") = Bool(TRUE)
    /\ ~Has(call.session, "messageFilters")
    /\ Get(ret, "enabled") = Bool(FALSE)
    /\ Get(ret, "usePerUserPreferences") = Bool(TRUE)

-----------------------------------------------------------------------------
(* The claims about the settings codec, checked under SpecCodec *)

\* the three fields of a session an export carries
ExportedFields(session) ==
    Obj([viewPreferences       |-> Get(session, "viewPreferences"),
         messageFilters        |-> Get(session, "messageFilters"),
         usePerUserPreferences |-> Get(session, "usePerUserPreferences")])

Exported == call.fn = "generateExportCommand" /\ ret # Pending

ImportHandled == last.kind = "command" /\ last.name = "import"

\* C9: the export command of a session s is "/import " followed by a code;
\* importSettings of that code is exactly {viewPreferences, messageFilters,
\* usePerUserPreferences} of s; and the /import handler run on that command in
\* another chat answers with the success message and leaves that chat with the
\* three fields of s, its own enabled flag and its own userPreferences.
C9_ExportImportRoundTrip ==
    Exported =>
        /\ ~IsThrown(ret)
        /\ SubSeq(ret.t, 1, Len(CommandPrefix)) = CommandPrefix
        /\ importSettings(CodeOfCommand(ret.t)) = ExportedFields(call.session)
        /\ ImportHandled =>
            /\ reply = <<"Settings imported successfully!">>
            /\ ExportedFields(store) = ExportedFields(call.session)
            /\ Get(store, "enabled") = Get(given, "enabled")
            /\ Get(store, "userPreferences") = Get(given, "userPreferences")
            /\ DOMAIN store.o = DOMAIN given.o

\* a session has been imported into a chat that had a record of its own, with
\* the bot disabled, users' preferences stored, and all three fields different
\* from the exported ones
C9_Witness ==
    /\ Exported
    /\ ImportHandled
    /\ given = ImportingChat
    /\ Get(given, "viewPreferences") # Get(call.session, "viewPreferences")
    /\ Get(given, "messageFilters") # Get(call.session, "messageFilters")
    /\ Get(given, "usePerUserPreferences") # Get(call.session, "usePerUserPreferences")
    /\ ExportedFields(store) = ExportedFields(call.session)
    /\ Get(store, "enabled") = Bool(FALSE)

\* the code cannot be decoded, or the decoded text is not JSON, or reading the
\* parsed value raises an error (the text is the JSON null)
DecodeFails(code) == IsThrown(atob(code))
ParseFails(code)  == ~DecodeFails(code) /\ IsThrown(JSONParse(atob(code).t))
ReadFails(code)   ==
    ~DecodeFails(code) /\ ~ParseFails(code) /\ Throws(JSONParse(atob(code).t))

\* C10: importSettings does not throw; it returns null when the code cannot
\* be decoded, when the decoded text cannot be parsed as JSON and when reading
\* the parsed value raises an error, and returns an object, with the three
\* settings fields, for every other code.
C10_NullOnFailureNeverThrows ==
    (call.fn = "importSettings" /\ ret # Pending) =>
        /\ ~IsThrown(ret)
        /\ IF DecodeFails(call.base64) \/ ParseFails(call.base64) \/ ReadFails(call.base64)
           THEN ret = Null
           ELSE /\ ret.ty = "object"
                /\ DOMAIN ret.o = {"viewPreferences", "messageFilters",
                                   "usePerUserPreferences"}

\* importSettings has returned null for a code that decodes to the JSON text
\* null, whose parsed value cannot be read
C10_Witness ==
    /\ call.fn = "importSettings"
    /\ ret = Null
    /\ ReadFails(call.base64)

-----------------------------------------------------------------------------
(* The claims about the bot's handlers, checked under Spec *)

InGroup == chatType \in {Str("group"), Str("supergroup")}

\* the update handled last is /toggle or a press of an admin_* button
GatedUpdate ==
    \/ last.kind = "command" /\ last.name = "toggle"
    \/ last.kind = "callback" /\ last.name = "admin"

\* getChatMember answered that the caller is an administrator or the creator
CallerIsAdmin == last.chatMember \in {Str("administrator"), Str("creator")}

\* the session the handler starts from: ctx.session with ensureCompleteSession
\* applied, which keeps every field that has a value
SessionBefore == ensureCompleteSession(given, chatType)

AdminOnlyNotice ==
    IF last.kind = "command" THEN <<"Only group admins can use this command.">>
    ELSE <<"Only admins can use this feature">>

\* what the gated update does when it is let through
TookEffect ==
    /\ reply # AdminOnlyNotice
    /\ reply # <<>>
    /\ IF last.kind = "command" \/ last.option = "toggle"
       THEN store = Put(SessionBefore, "enabled", Not(Get(SessionBefore, "enabled")))
       ELSE IF last.option = "reset"
       THEN store = Put(getDefaultSession(chatType), "enabled", Bool(TRUE))
       ELSE store = SessionBefore

FirstUpdate == updates = 1

\* C2: in a group or supergroup with no stored session the session of the
\* first update has enabled = false and displayMode = raw, and a first
\* ordinary message gets no reply; in a private chat it has enabled = true and
\* displayMode = compact, and the message is answered.
C2_FirstSessionByChatType ==
    FirstUpdate =>
        /\ InGroup =>
            /\ Get(SessionBefore, "enabled") = Bool(FALSE)
            /\ GetIn(SessionBefore, <<"viewPreferences", "displayMode">>) = Str("raw")
            /\ last.kind = "message" => reply = <<>>
        /\ chatType = Str("private") =>
            /\ Get(SessionBefore, "enabled") = Bool(TRUE)
            /\ GetIn(SessionBefore, <<"viewPreferences", "displayMode">>) = Str("compact")
            /\ last.kind = "message" => reply = <<"update">>

\* the /import handled last carried no code, or a code importSettings rejects
ImportedCode == Split(last.text.t)[2]

ImportRejected ==
    /\ ImportHandled
    /\ \/ last.text = Undefined
       \/ Len(Split(last.text.t)) < 2
       \/ ~Truthy(DecodedSettings(ImportedCode))

RejectionNotices ==
    { <<"Please provide the settings code to import.">>,
      <<"Invalid import code. Please check and try again.">> }

IsBoolean(v) == v \in {Bool(TRUE), Bool(FALSE)}

HasShape(v, fields) == v.ty = "object" /\ DOMAIN v.o = fields

PrivacyOptionsShape(p) ==
    /\ HasShape(p, {"maskUserIds", "maskPhoneNumbers", "maskChatIds"})
    /\ \A k \in DOMAIN p.o : IsBoolean(p.o[k])

ViewPreferencesShape(v) ==
    /\ HasShape(v, {"displayMode", "showForwardInfo", "showAuthorInfo",
                    "privacyOptions"})
    /\ Get(v, "displayMode") \in {Str("compact"), Str("full"), Str("raw")}
    /\ IsBoolean(Get(v, "showForwardInfo"))
    /\ IsBoolean(Get(v, "showAuthorInfo"))
    /\ PrivacyOptionsShape(Get(v, "privacyOptions"))

MessageFiltersShape(f) ==
    /\ HasShape(f, {"respondToAll", "enabledTypes"})
    /\ IsBoolean(Get(f, "respondToAll"))
    /\ HasShape(Get(f, "enabledTypes"), MessageType)
    /\ \A t \in MessageType : IsBoolean(GetIn(f, <<"enabledTypes", t>>))

UserPreferencesShape(u) ==
    /\ u.ty = "object"
    /\ \A id \in DOMAIN u.o :
        /\ HasShape(u.o[id], {"viewPreferences"})
        /\ ViewPreferencesShape(Get(u.o[id], "viewPreferences"))

SessionDataShape(s) ==
    /\ HasShape(s, SessionFields)
    /\ IsBoolean(Get(s, "enabled"))
    /\ ViewPreferencesShape(Get(s, "viewPreferences"))
    /\ MessageFiltersShape(Get(s, "messageFilters"))
    /\ IsBoolean(Get(s, "usePerUserPreferences"))
    /\ UserPreferencesShape(Get(s, "userPreferences"))

\* C12: after any sequence of commands, callbacks, messages and /import calls
\* whose codes importSettings accepts, the chat's stored session has exactly
\* the SessionData shape: boolean enabled and usePerUserPreferences,
\* viewPreferences with displayMode among compact, full and raw, boolean
\* showForwardInfo and showAuthorInfo and three boolean privacyOptions,
\* messageFilters with boolean respondToAll and a boolean for each of the
\* twelve message types, userPreferences mapping ids to view preferences of
\* the same shape.
C12_SessionDataShape == store # Undefined => SessionDataShape(store)

-----------------------------------------------------------------------------
(* The claims about applyPrivacyMask, checked under SpecMask *)

Masked == call.fn = "applyPrivacyMask" /\ ret # Pending

MaskOn(option) == Truthy(Get(call.privacyOptions, option))

\* sub occurs in t
Occurs(sub, t) ==
    \E j \in 1 .. Len(t) - Len(sub) + 1 : SubSeq(t, j, j + Len(sub) - 1) = sub

\* a phone number stands at position i of t: a plus sign, one to three digits,
\* six or more digits; it ends where its digits end
PhoneAt(t, i) == At(t, i, "+") /\ DigitRun(t, i + 1) >= 7

PhoneNumber(t, i) == SubSeq(t, i, i + DigitRun(t, i + 1))

\* the phone number with its plus sign and its first k digits kept
Truncated(t, i, k) == SubSeq(t, i, i + k) \o Stars(6)

\* C13: with maskPhoneNumbers on, whatever maskUserIds and maskChatIds are,
\* every phone number of the text (a plus sign, one to three digits, six or
\* more digits) appears in the result with its plus sign and leading digits
\* kept and the rest replaced by six asterisks, and not in full.
C13_PhoneNumbersTruncated ==
    (Masked /\ MaskOn("maskPhoneNumbers")) =>
        \A i \in DOMAIN call.text.t :
            PhoneAt(call.text.t, i) =>
                /\ \E k \in 1 .. 3 : Occurs(Truncated(call.text.t, i, k), ret.t)
                /\ ~Occurs(PhoneNumber(call.text.t, i), ret.t)

\* a chat id stands at position i of t: -100 and six or more digits
ChatIdAt(t, i) == Stands(t, i, <<"-", "1", "0", "0">>) /\ DigitRun(t, i + 4) >= 6

ChatId(t, i) == SubSeq(t, i, i + 3 + DigitRun(t, i + 4))

\* C14: with maskChatIds on, whatever maskUserIds and maskPhoneNumbers are,
\* every run of -100 and six or more digits appears in the result whole,
\* between four asterisks and four asterisks.
C14_ChatIdsWrapped ==
    (Masked /\ MaskOn("maskChatIds")) =>
        \A i \in DOMAIN call.text.t :
            ChatIdAt(call.text.t, i) =>
                Occurs(Stars(4) \o ChatId(call.text.t, i) \o Stars(4), ret.t)

-----------------------------------------------------------------------------
(* More claims about the bot's handlers, checked under Spec *)

PhoneMasking(viewPreferences) ==
    GetIn(viewPreferences, <<"privacyOptions", "maskPhoneNumbers">>)

\* C15: after any sequence of commands, callbacks and /import calls the
\* chat's viewPreferences and every user's entry of userPreferences have
\* privacyOptions.maskPhoneNumbers = true.
C15_PhoneMaskingStaysOn ==
    store # Undefined =>
        /\ PhoneMasking(Get(store, "viewPreferences")) = Bool(TRUE)
        /\ \A id \in DOMAIN Get(store, "userPreferences").o :
            PhoneMasking(GetIn(store, <<"userPreferences", id, "viewPreferences">>))
                = Bool(TRUE)

-----------------------------------------------------------------------------
(* The claims about the type guards and prettifyUpdate, checked under        *)
(* SpecFormat                                                                *)

Formatted == call.fn = "prettifyUpdate" /\ ret # Pending

KnownTags == {Str("user"), Str("hidden_user"), Str("chat"), Str("channel")}

\* what the five predicates answer for an origin
OriginGuards(origin) ==
    <<isMessageOriginUser(origin), isMessageOriginHiddenUser(origin),
      isMessageOriginChat(origin), isMessageOriginChannel(origin),
      isMessageOriginUnknown(origin)>>

ForwardShown ==
    call.forward # Undefined /\ Truthy(Get(call.preferences, "showForwardInfo"))

\* C16: for every origin, of a known type or of any other, exactly one of the
\* five predicates is true; for a type that is none of the four known ones it
\* is isMessageOriginUnknown, the text names the unknown type, and the text
\* of the formatter's last branch ("From an unrecognized origin.") is never
\* written.
C16_OriginGuardsPartition ==
    (Formatted /\ call.forward # Undefined) =>
        /\ Cardinality({g \in 1 .. 5 : OriginGuards(call.forward)[g]}) = 1
        /\ Get(call.forward, "type") \notin KnownTags =>
                isMessageOriginUnknown(call.forward)
        /\ Occurs(Literal.FromUnknown, ret.t) <=>
                (ForwardShown /\ Get(call.forward, "type") \notin KnownTags)
        /\ ~Occurs(Literal.FromUnrecognized, ret.t)

\* a message forwarded from an origin of type "story" has been formatted, and
\* the text says the origin's type is unknown
C16_Witness ==
    /\ Formatted
    /\ ForwardShown
    /\ Get(call.forward, "type") = Str("story")
    /\ OriginGuards(call.forward) = <<FALSE, FALSE, FALSE, FALSE, TRUE>>
    /\ Occurs(Literal.FromUnknown \o Chars("story"), ret.t)

\* where sub first occurs in t (0 when it does not occur)
Position(sub, t) ==
    IF Occurs(sub, t)
    THEN CHOOSE j \in 1 .. Len(t) :
            /\ SubSeq(t, j, j + Len(sub) - 1) = sub
            /\ \A k \in 1 .. j - 1 : SubSeq(t, k, k + Len(sub) - 1) # sub
    ELSE 0

EndsWith(sub, t) ==
    Len(sub) <= Len(t) /\ SubSeq(t, Len(t) - Len(sub) + 1, Len(t)) = sub

DisplayMode == Get(call.preferences, "displayMode")

AuthorShown ==
    call.author # Undefined /\ Truthy(Get(call.preferences, "showAuthorInfo"))

\* the update as the raw block shows it
Serialization == escapeHtml(StringifyIndented(call.update, 0))

\* the summary of a text: from the type label up to the block that follows
\* (the raw block in full mode, the usage hint in compact mode)
SummaryOf(t, following) ==
    SubSeq(t, Position(Literal.TypeLabel, t), Position(following, t) - 1)

\* the same call in compact mode
CompactText ==
    prettifyUpdate(call.update, Put(call.preferences, "displayMode", Str("compact")),
                   call.author, call.forward).t

\* the lines of the summary: the type, the content when the message has a
\* text, the message id and the chat id
SummaryLines(t) ==
    /\ Occurs(Literal.TypeLabel, t)
    /\ Truthy(GetIn(call.update, <<"message", "text">>)) <=> Occurs(Literal.ContentLabel, t)
    /\ Occurs(Literal.MessageIdLabel
              \o Interpolated(GetIn(call.update, <<"message", "message_id">>))
              \o Literal.EndCodeLine, t)
    /\ Occurs(Literal.ChatIdLabel
              \o Interpolated(GetIn(call.update, <<"message", "chat", "id">>))
              \o Literal.EndCodeBlank, t)

\* where the body starts: at the raw block in raw mode, at the heading of the
\* message information otherwise
BodyStart(t) ==
    IF DisplayMode = Str("raw") THEN Position(Literal.RawHeading, t)
    ELSE IF DisplayMode = Str("full") THEN Position(Literal.DetailedInfoHeading, t)
    ELSE Position(Literal.MessageInfoHeading, t)

\* C20: for every display mode, every setting of showForwardInfo and
\* showAuthorInfo, with and without a forward origin and an author id, the
\* text is, in this order: the forward block if and only if there is an
\* origin and showForwardInfo is on; the author block if and only if there is
\* an author id and showAuthorInfo is on; the body.  The body of compact mode
\* is the summary (type, content, message id, chat id) and then the usage
\* hint, with no JSON; that of full mode is the same summary and then the
\* serialized update; that of raw mode is the serialized update alone, with
\* no summary and no hint.
C20_SectionsInFixedOrder ==
    Formatted =>
        /\ Occurs(Literal.ForwardHeading, ret.t) <=> ForwardShown
        /\ Occurs(Literal.AuthorHeading, ret.t) <=> AuthorShown
        /\ ForwardShown => Position(Literal.ForwardHeading, ret.t) = 1
        /\ (AuthorShown /\ ~ForwardShown) => Position(Literal.AuthorHeading, ret.t) = 1
        /\ (AuthorShown /\ ForwardShown) => Position(Literal.AuthorHeading, ret.t) > 1
        /\ BodyStart(ret.t) > Position(Literal.ForwardHeading, ret.t)
        /\ BodyStart(ret.t) > Position(Literal.AuthorHeading, ret.t)
        /\ (~AuthorShown /\ ~ForwardShown) => BodyStart(ret.t) = 1
        /\ DisplayMode = Str("compact") =>
            /\ SummaryLines(ret.t)
            /\ EndsWith(Literal.UsageHint, ret.t)
            /\ Position(Literal.UsageHint, ret.t) > Position(Literal.ChatIdLabel, ret.t)
            /\ ~Occurs(Literal.RawHeading, ret.t)
            /\ ~Occurs(Serialization, ret.t)
        /\ DisplayMode = Str("full") =>
            /\ SummaryLines(ret.t)
            /\ SummaryOf(ret.t, Literal.RawHeading) = SummaryOf(CompactText, Literal.UsageHint)
            /\ EndsWith(Literal.RawHeading \o Serialization \o Literal.EndPre, ret.t)
            /\ Position(Literal.RawHeading, ret.t) > Position(Literal.ChatIdLabel, ret.t)
        /\ DisplayMode = Str("raw") =>
            /\ SubSeq(ret.t, BodyStart(ret.t), Len(ret.t))
                    = Literal.RawHeading \o Serialization \o Literal.EndPre
            /\ ~Occurs(Literal.TypeLabel, ret.t)
            /\ ~Occurs(Literal.ChatIdLabel, ret.t)
            /\ ~Occurs(Literal.UsageHint, ret.t)

\* a forwarded message with a known author has been formatted in full mode
\* with both blocks shown: forward block, author block, summary, serialized
\* update
C20_Witness ==
    /\ Formatted
    /\ DisplayMode = Str("full")
    /\ ForwardShown /\ AuthorShown
    /\ Position(Literal.ForwardHeading, ret.t) = 1
    /\ Position(Literal.ForwardHeading, ret.t) < Position(Literal.AuthorHeading, ret.t)
    /\ Position(Literal.AuthorHeading, ret.t) < Position(Literal.TypeLabel, ret.t)
    /\ Position(Literal.TypeLabel, ret.t) < Position(Literal.RawHeading, ret.t)
    /\ Occurs(Serialization, ret.t)

\* the update handled last is a message
MessageUpdate == last.kind = "message"

\* a step of the message handler's try block failed: one before the reply,
\* or the sending of the reply
StepFailed ==
    LET tried == onMessageTry([session |-> given, chatType |-> chatType,
                               from |-> last.from, chatMember |-> Undefined],
                              last.message)
    IN  \/ tried.step = "throw"
        \/ tried.step = "reply" /\ last.api[1] = "error"

\* C18: whatever step of the message handler fails, the sending of the reply
\* included, the handler catches the exception and answers with the apology,
\* and no exception leaves the handler.
C18_FailuresAnsweredWithApology ==
    MessageUpdate =>
        /\ err = Undefined
        /\ StepFailed => reply = Apology

\* the update handled last is /toggle, /admin or a press of an admin_* button
PrivilegedUpdate ==
    \/ last.kind = "command" /\ last.name \in {"toggle", "admin"}
    \/ last.kind = "callback" /\ last.name = "admin"

\* getChatMember threw an exception
QueryFailed == IsThrown(last.chatMember)

\* what isUserAdmin answered the handler of the last update
AnsweredAdmin ==
    isUserAdmin([session |-> given, chatType |-> chatType,
                 from |-> last.from, chatMember |-> last.chatMember])

-----------------------------------------------------------------------------
(* The claim about two updates handled at once, checked under SpecRace *)

\* the run whose write was the last
Finished(i) ==
    /\ inFlight[i].pc = "done"
    /\ inFlight[i].update = last
    /\ inFlight[i].session = given

\* the run changed the setting at `path` in its own ctx.session
Changed(i, path) ==
    /\ inFlight[i].pc \in {"handled", "done"}
    /\ GetIn(inFlight[i].out.session, path) # GetIn(inFlight[i].session, path)

\* C17: the record of the chat is what the run that wrote last made of the
\* record it had read at its start: its write is never held back or merged,
\* whatever another run has written in between.  So of two runs that read the
\* same record, the change of the one that writes first is lost.
C17_LastWriteWins ==
    \A i \in Invocations :
        Finished(i) =>
            /\ store = Dispatch(last, given).session
            /\ \A j \in Invocations \ {i} :
                (inFlight[j].pc = "done" /\ inFlight[j].session = given) =>
                    \A path \in {<<"enabled">>, <<"viewPreferences", "displayMode">>} :
                        (Changed(j, path) /\ ~Changed(i, path)) =>
                            GetIn(store, path) = GetIn(given, path)

\* both runs read the record of a private chat where the bot was on and the
\* mode compact; one handled /toggle and answered that the bot is off, the
\* other a press of view_raw; the record holds the raw mode and the bot is on
C17_Witness ==
    /\ chatType = Str("private")
    /\ \E i, j \in Invocations :
        /\ inFlight[i].pc = "done" /\ inFlight[j].pc = "done"
        /\ inFlight[i].session = inFlight[j].session
        /\ inFlight[i].update.kind = "command"
        /\ inFlight[i].out.reply = <<"Bot is now disabled in this chat.">>
        /\ Changed(i, <<"enabled">>)
        /\ inFlight[j].update.kind = "callback" /\ inFlight[j].update.option = "raw"
        /\ Changed(j, <<"viewPreferences", "displayMode">>)
        /\ Get(store, "enabled") = Bool(TRUE)
        /\ GetIn(store, <<"viewPreferences", "displayMode">>) = Str("raw")

-----------------------------------------------------------------------------
(* Claims about what the handlers leave alone, checked under Spec *)

\* the user ids that have an entry in the session's userPreferences
UserKeys(session) ==
    IF Get(session, "userPreferences").ty = "object"
    THEN DOMAIN Get(session, "userPreferences").o
    ELSE {}

\* the update handled last only reads the effective preferences: an ordinary
\* message, /mode or /privacy
ReadingUpdate ==
    \/ last.kind = "message"
    \/ last.kind = "command" /\ last.name \in {"mode", "privacy"}

\* C21: getEffectivePreferences leaves the session it is given as it was, and
\* after an ordinary message, /mode or /privacy the stored session has the
\* per-user entries it had before and no other; after the two commands it is
\* the session the handler started from.
C21_EffectivePreferencesOnlyRead ==
    ReadingUpdate =>
        /\ Looked(SessionBefore, last.from) = SessionBefore
        /\ UserKeys(store) = UserKeys(SessionBefore)
        /\ last.kind = "command" => store = SessionBefore

\* per-user preferences are on and the sender of /mode has no entry: the
\* panel is sent and there is still no entry
C21_Witness ==
    /\ last.kind = "command" /\ last.name = "mode"
    /\ last.from # Undefined
    /\ Get(given, "usePerUserPreferences") = Bool(TRUE)
    /\ UserKeys(store) = {}
    /\ reply = <<"Select your preferred display options:">>

\* the update handled last is a press of a filter_ button
FilterPressed_ == last.kind = "callback" /\ last.name = "filter"

RespondToAll(session) == GetIn(session, <<"messageFilters", "respondToAll">>)

EnabledTypes(session) == GetIn(session, <<"messageFilters", "enabledTypes">>)

C23_UserPreferencesSparse ==
    \A key \in UserKeys(store) :
        GetIn(store, <<"userPreferences", key, "viewPreferences">>)
            # Get(store, "viewPreferences")

-----------------------------------------------------------------------------
(* A claim about getDefaultSession, checked under SpecFn *)

\* C24: getDefaultSession returns enabled = true and displayMode = compact
\* for the chat type private, enabled = false and displayMode = raw for group,
\* supergroup and channel, and for each of the four: both show flags true,
\* privacyOptions {maskUserIds false, maskPhoneNumbers true, maskChatIds
\* false}, the twelve message types enabled with respondToAll true,
\* usePerUserPreferences false and no per-user entry.
C24_DefaultSessionByChatType ==
    (Returned("getDefaultSession") /\ call.chatType # Undefined) =>
        /\ call.chatType = Str("private") =>
            /\ Get(ret, "enabled") = Bool(TRUE)
            /\ GetIn(ret, <<"viewPreferences", "displayMode">>) = Str("compact")
        /\ call.chatType # Str("private") =>
            /\ Get(ret, "enabled") = Bool(FALSE)
            /\ GetIn(ret, <<"viewPreferences", "displayMode">>) = Str("raw")
        /\ DOMAIN ret.o = SessionFields
        /\ DOMAIN Get(ret, "viewPreferences").o =
                {"displayMode", "showForwardInfo", "showAuthorInfo", "privacyOptions"}
        /\ GetIn(ret, <<"viewPreferences", "showForwardInfo">>) = Bool(TRUE)
        /\ GetIn(ret, <<"viewPreferences", "showAuthorInfo">>) = Bool(TRUE)
        /\ GetIn(ret, <<"viewPreferences", "privacyOptions">>).o =
                [maskUserIds |-> Bool(FALSE), maskPhoneNumbers |-> Bool(TRUE),
                 maskChatIds |-> Bool(FALSE)]
        /\ DOMAIN GetIn(ret, <<"messageFilters", "enabledTypes">>).o =
                {"text", "photo", "video", "document", "audio", "sticker",
                 "animation", "voice", "poll", "location", "contact", "forward"}
        /\ \A t \in DOMAIN GetIn(ret, <<"messageFilters", "enabledTypes">>).o :
                GetIn(ret, <<"messageFilters", "enabledTypes", t>>) = Bool(TRUE)
        /\ GetIn(ret, <<"messageFilters", "respondToAll">>) = Bool(TRUE)
        /\ Get(ret, "usePerUserPreferences") = Bool(FALSE)
        /\ Get(ret, "userPreferences") = EmptyObj

\* getDefaultSession("channel") has returned a disabled session in raw mode
C24_Witness ==
    /\ Returned("getDefaultSession")
    /\ call.chatType = Str("channel")
    /\ Get(ret, "enabled") = Bool(FALSE)
    /\ GetIn(ret, <<"viewPreferences", "displayMode">>) = Str("raw")

-----------------------------------------------------------------------------
(* More claims about what the handlers leave alone, checked under Spec *)

\* the handler of the last update wrote to the caller's own preferences
OwnScope ==
    /\ Get(SessionBefore, "usePerUserPreferences") = Bool(TRUE)
    /\ last.from # Undefined

\* the per-user entries of users other than the caller are as they were
OthersKept ==
    \A key \in (UserKeys(store) \cup UserKeys(SessionBefore)) \ {Key(last.from.n)} :
        GetIn(store, <<"userPreferences", key>>)
            = GetIn(SessionBefore, <<"userPreferences", key>>)

\* C25: with per-user preferences on, after a press of privacy_user_ids or
\* privacy_chat_ids the group's privacyOptions and every other user's entry
\* are what they were before the press, also when the caller's entry was
\* created by this press.
C25_PrivacyPressKeepsGroupOptions ==
    (last.kind = "callback" /\ last.name = "privacy" /\ OwnScope) =>
        /\ GetIn(store, <<"viewPreferences", "privacyOptions">>)
                = GetIn(SessionBefore, <<"viewPreferences", "privacyOptions">>)
        /\ OthersKept

-----------------------------------------------------------------------------
(* The claim about the scope of view_ and toggle_, checked under SpecScopes *)

\* the field of the preferences the pressed button stands for
PressedField ==
    IF last.name = "view" THEN "displayMode"
    ELSE IF last.option = "forward" THEN "showForwardInfo"
    ELSE "showAuthorInfo"

\* `after` is `before` with the pressed field written and nothing else
PressApplied(before, after) ==
    /\ DOMAIN after.o = DOMAIN before.o \cup {PressedField}
    /\ \A field \in DOMAIN after.o \ {PressedField} :
            Get(after, field) = Get(before, field)
    /\ Get(after, PressedField) =
            IF last.name = "view" THEN Str(last.option)
            ELSE Not(Get(before, PressedField))

\* the caller's preferences before the press: the entry's, or with no entry
\* the copy of the group's that the handler makes
OwnBefore ==
    IF Key(last.from.n) \in UserKeys(SessionBefore)
    THEN GetIn(SessionBefore, <<"userPreferences", Key(last.from.n), "viewPreferences">>)
    ELSE Get(SessionBefore, "viewPreferences")

\* C26: a press of view_<mode> or toggle_<section> writes one scope.  With
\* per-user preferences on it writes the pressed field of the caller's entry,
\* created as a copy of the group's preferences when absent, and leaves the
\* group's preferences and the other users' entries as they were; with
\* per-user preferences off it writes the pressed field of the group's
\* preferences and leaves userPreferences as it was.  enabled, messageFilters
\* and usePerUserPreferences are as they were in both cases.
C26_PressWritesOneScope ==
    (last.kind = "callback" /\ last.name \in {"view", "toggle"}) =>
        /\ \A field \in {"enabled", "messageFilters", "usePerUserPreferences"} :
                Get(store, field) = Get(SessionBefore, field)
        /\ OwnScope =>
            /\ Get(store, "viewPreferences") = Get(SessionBefore, "viewPreferences")
            /\ OthersKept
            /\ UserKeys(store) = UserKeys(SessionBefore) \cup {Key(last.from.n)}
            /\ DOMAIN GetIn(store, <<"userPreferences", Key(last.from.n)>>).o
                    = {"viewPreferences"}
            /\ PressApplied(OwnBefore,
                    GetIn(store, <<"userPreferences", Key(last.from.n), "viewPreferences">>))
        /\ ~OwnScope =>
            /\ Get(store, "userPreferences") = Get(SessionBefore, "userPreferences")
            /\ PressApplied(Get(SessionBefore, "viewPreferences"),
                            Get(store, "viewPreferences"))

\* per-user preferences are on, user 2 has an entry and user 1 none: user 1
\* presses view_compact, gets an entry in compact mode, and the group's mode
\* is still raw
C26_Witness ==
    /\ last.kind = "callback" /\ last.name = "view" /\ last.option = "compact"
    /\ last.from = Num(1)
    /\ Get(given, "usePerUserPreferences") = Bool(TRUE)
    /\ UserKeys(given) = {"2"}
    /\ UserKeys(store) = {"1", "2"}
    /\ GetIn(store, <<"userPreferences", "1", "viewPreferences", "displayMode">>)
            = Str("compact")
    /\ GetIn(store, <<"viewPreferences", "displayMode">>) = Str("raw")
    /\ GetIn(store, <<"userPreferences", "2">>) = GetIn(given, <<"userPreferences", "2">>)

-----------------------------------------------------------------------------
(* Claims about the enabled flag and the resets, checked under Spec *)

\* the update handled last is a chat_member or my_chat_member update
MemberUpdate == last.kind \in {"chat_member", "my_chat_member"}

\* it reports that the bot, which was outside the chat, is now in it
NewlyAdded ==
    /\ last.user = Num(Me)
    /\ last.was = "left"
    /\ last.status \in {"member", "administrator"}

\* C29: a chat_member or my_chat_member update resets the session to the
\* chat type's defaults with enabled = true when the bot itself is newly
\* added to the chat; an update about another user, or about the bot when
\* it was in the chat already, leaves the session as it was.
C29_ResetOnlyWhenNewlyAdded ==
    MemberUpdate =>
        /\ NewlyAdded => store = Put(getDefaultSession(chatType), "enabled", Bool(TRUE))
        /\ ~NewlyAdded => store = given

\* the update u is one of those that may change enabled: an authorised
\* /toggle, admin_toggle or admin_reset, or the bot newly added to the chat
Enabler(u) ==
    \/ /\ \/ u.kind = "command" /\ u.name = "toggle"
          \/ u.kind = "callback" /\ u.name = "admin" /\ u.option \in {"toggle", "reset"}
       /\ \/ chatType = Str("private")
          \/ u.chatMember \in {Str("administrator"), Str("creator")}
    \/ /\ u.kind \in {"chat_member", "my_chat_member"}
       /\ u.user = Num(Me) /\ u.was = "left" /\ u.status \in {"member", "administrator"}

\* C27: while the chat's session has enabled = false an ordinary message gets
\* no reply, and no update changes enabled except an authorised /toggle,
\* admin_toggle or admin_reset and the bot being newly added.
C27_DisabledUntilAuthorised ==
    [][ /\ (Get(SessionOf(store), "enabled") = Bool(FALSE) /\ last'.kind = "message") =>
                reply' = <<>>
        /\ Get(SessionOf(store'), "enabled") # Get(SessionOf(store), "enabled") =>
                Enabler(last')
      ]_vars

-----------------------------------------------------------------------------
(* The claim about a chat with every filter off, checked under SpecFilters *)

\* respondToAll is false and so is each of the twelve entries
AllFiltersOff(session) ==
    /\ RespondToAll(session) = Bool(FALSE)
    /\ \A t \in {"text", "photo", "video", "document", "audio", "sticker",
                 "animation", "voice", "poll", "location", "contact", "forward"} :
            Get(EnabledTypes(session), t) = Bool(FALSE)

\* C28: when respondToAll is false and the twelve enabledTypes entries are
\* all false, the message handler replies to no message, whatever its
\* content: a forwarded message and a message of none of the twelve types
\* included.
C28_AllFiltersOffSilencesBot ==
    (MessageUpdate /\ AllFiltersOff(SessionBefore)) =>
        (reply = <<>> /\ err = Undefined)

-----------------------------------------------------------------------------
(* The claim about what admin_reset leaves behind, checked under SpecReset *)

\* the last update was admin_reset and it went through
ResetDone ==
    /\ last.kind = "callback" /\ last.name = "admin" /\ last.option = "reset"
    /\ reply = <<"All settings reset to defaults", "Admin Control Panel">>

\* C30: after an authorised admin_reset, whatever the session was before,
\* the stored session is getDefaultSession(chatType) with enabled true: the
\* group view preferences are the defaults of the chat kind (raw in a group,
\* supergroup or channel, compact otherwise), the message filters are the
\* defaults, per-user preferences are off and no user has an entry, so the
\* effective preferences of every user are the group defaults.
C30_ResetRestoresDefaults ==
    ResetDone =>
        /\ store = Put(getDefaultSession(chatType), "enabled", Bool(TRUE))
        /\ Get(store, "enabled") = Bool(TRUE)
        /\ Get(store, "viewPreferences") = getDefaultViewPreferences(IsGroupType(chatType))
        /\ GetIn(store, <<"viewPreferences", "displayMode">>) =
                (IF chatType \in {Str("group"), Str("supergroup"), Str("channel")}
                 THEN Str("raw") ELSE Str("compact"))
        /\ Get(store, "messageFilters") = getDefaultMessageFilters
        /\ Get(store, "usePerUserPreferences") = Bool(FALSE)
        /\ Get(store, "userPreferences") = EmptyObj
        /\ \A u \in Callers :
                getEffectivePreferences(store, u) =
                    getDefaultViewPreferences(IsGroupType(chatType))

\* the admin of a supergroup that was switched off, had per-user preferences
\* on and held entries of its users has pressed admin_reset
C30_Witness ==
    /\ ResetDone
    /\ chatType = Str("supergroup")
    /\ last.chatMember = Str("administrator")
    /\ Get(given, "enabled") = Bool(FALSE)
    /\ Get(given, "usePerUserPreferences") = Bool(TRUE)
    /\ UserKeys(given) # {}
    /\ UserKeys(store) = {}

=============================================================================
